---- MODULE Spec2Model ----
(***************************************************************************)
(* Bizdash: the REST backend (backend/server.js) over its three PostgreSQL  *)
(* tables, expenses, earnings and inventory, and the dashboard summary.     *)
(*                                                                          *)
(* Every resource handler awaits one statement, so a handler is one step:   *)
(* it takes the request, checks it, runs its statement on the tables and    *)
(* sends the response; Close ends the exchange.  Handlers run in any order. *)
(* SpecRace takes the update of an expense and the summary statement by     *)
(* statement, for two clients whose requests are under way at the same      *)
(* time.  SpecAuth adds the login route and the deployment's credentials.   *)
(*                                                                          *)
(* JavaScript values are records tagged by k.  A JavaScript number is       *)
(* either NaN or a decimal with two fraction digits, held as the integer    *)
(* number of hundredths (Num(5000) is 50, Num(1050) is 10.50).  A           *)
(* JavaScript string is a sequence of one-character strings.                *)
(***************************************************************************)
EXTENDS Integers, Sequences, FiniteSets, TLC

VARIABLES
  db,       \* the three tables: db[t] is the set of rows of table t
  nextId,   \* nextId[t]: the next value of the id sequence of table t
  req,      \* the request of the exchange in hand (method "NONE": none)
  res,      \* the response the handler sent for it
  query,    \* pool.query in this exchange: "none" (not called), "served" (the
            \* database took the statement) or "failed" (it was out of reach)
  before,   \* history: the tables when the handler was entered
  issued,   \* history: issued[t] lists the ids INSERT has returned, in order
  removed,  \* history: removed[t] is the set of ids DELETE has returned
  calls,    \* calls[c]: the request of client c that runs alongside the
            \* exchange in hand, statement by statement
  env,      \* process.env: NODE_ENV, BASIC_AUTH_USER, BASIC_AUTH_PASSWORD
  logins,   \* history: the login requests answered so far
  flow,     \* the handler of the exchange in hand taken statement by statement:
            \* where it stands and every response it has sent
  ui,       \* the browser client: the state of its React components
  net,      \* the client's requests under way, with the responses on their
            \* way back
  storage   \* the browser's localStorage entry 'dashboardUser'

\* The browser's side.
browser == <<ui, net, storage>>

vars ==
  <<db, nextId, req, res, query, before, issued, removed, calls, env, logins,
    flow, browser>>

(***************************************************************************)
(* JavaScript values                                                        *)
(***************************************************************************)
Undefined == [k |-> "undefined"]
Null == [k |-> "null"]
NaN == [k |-> "NaN"]
Num(n) == [k |-> "number", n |-> n]
Str(s) == [k |-> "string", s |-> s]

IsNum(v) == v.k = "number"
IsStr(v) == v.k = "string"

DigitChars == <<"0", "1", "2", "3", "4", "5", "6", "7", "8", "9">>

IsDigit(c) == \E i \in 1..10 : DigitChars[i] = c

DigitVal(c) == (CHOOSE i \in 1..10 : DigitChars[i] = c) - 1

\* ToBoolean, as the handlers' `!x` applies it.
Truthy(v) ==
  CASE v.k = "undefined" -> FALSE
    [] v.k = "null" -> FALSE
    [] v.k = "NaN" -> FALSE
    [] v.k = "number" -> v.n # 0
    [] v.k = "string" -> Len(v.s) > 0

\* Number of leading white-space characters of s from position i on.
RECURSIVE SkipSpace(_, _)
SkipSpace(s, i) ==
  IF i <= Len(s) /\ s[i] = " " THEN SkipSpace(s, i + 1) ELSE i

\* Length of the run of digits of s that starts at position i.
RECURSIVE DigitRun(_, _)
DigitRun(s, i) ==
  IF i <= Len(s) /\ IsDigit(s[i]) THEN 1 + DigitRun(s, i + 1) ELSE 0

\* The decimal value of the n digits of s that start at position i.
RECURSIVE DigitsValue(_, _, _)
DigitsValue(s, i, n) ==
  IF n = 0 THEN 0
  ELSE 10 * DigitsValue(s, i, n - 1) + DigitVal(s[i + n - 1])

\* The first two fraction digits of the n digits at position i, as hundredths.
FractionValue(s, i, n) ==
  IF n = 0 THEN 0
  ELSE IF n = 1 THEN 10 * DigitVal(s[i])
  ELSE 10 * DigitVal(s[i]) + DigitVal(s[i + 1])

\* parseFloat of a string: leading white space, a sign, digits, a point and
\* digits; the longest such prefix is the value and the rest is ignored; NaN
\* when the prefix holds no digit.  (Exponents and "Infinity" are not among
\* the inputs.)
StringToFloat(s) ==
  LET a == SkipSpace(s, 1)
      neg == a <= Len(s) /\ s[a] = "-"
      b == IF a <= Len(s) /\ (s[a] = "-" \/ s[a] = "+") THEN a + 1 ELSE a
      ni == DigitRun(s, b)
      point == b + ni <= Len(s) /\ s[b + ni] = "."
      nf == IF point THEN DigitRun(s, b + ni + 1) ELSE 0
      mag == 100 * DigitsValue(s, b, ni) + FractionValue(s, b + ni + 1, nf)
  IN IF ni + nf = 0 THEN NaN
     ELSE Num(IF neg THEN 0 - mag ELSE mag)

\* parseInt of a string (radix 10): leading white space, a sign, digits.
StringToInt(s) ==
  LET a == SkipSpace(s, 1)
      neg == a <= Len(s) /\ s[a] = "-"
      b == IF a <= Len(s) /\ (s[a] = "-" \/ s[a] = "+") THEN a + 1 ELSE a
      ni == DigitRun(s, b)
      mag == 100 * DigitsValue(s, b, ni)
  IN IF ni = 0 THEN NaN
     ELSE Num(IF neg THEN 0 - mag ELSE mag)

\* Truncation toward zero of a number of hundredths, in hundredths.
Trunc(n) == IF n >= 0 THEN 100 * (n \div 100) ELSE 0 - 100 * ((0 - n) \div 100)

\* parseFloat(v): v is converted to a string first, so undefined and null
\* give NaN and a number gives itself.
parseFloat(v) ==
  CASE v.k = "string" -> StringToFloat(v.s)
    [] v.k = "number" -> v
    [] OTHER -> NaN

\* parseInt(v): as parseFloat, but only the integer digits are read.
parseInt(v) ==
  CASE v.k = "string" -> StringToInt(v.s)
    [] v.k = "number" -> Num(Trunc(v.n))
    [] OTHER -> NaN

(***************************************************************************)
(* Text order and decimal text, as PostgreSQL and node-postgres produce it  *)
(***************************************************************************)
\* The characters of the inputs in ascending code order.
CharOrder ==
  <<" ", "+", "-", ".", "0", "1", "2", "3", "4", "5", "6", "7", "8", "9",
    "N", "a", "b", "c", "d", "s", "v", "w", "x">>

CharCode(c) == CHOOSE i \in 1..Len(CharOrder) : CharOrder[i] = c

\* s < t in the order of text (character by character, a prefix first).
RECURSIVE TextLess(_, _)
TextLess(s, t) ==
  IF t = <<>> THEN FALSE
  ELSE IF s = <<>> THEN TRUE
  ELSE IF CharCode(Head(s)) # CharCode(Head(t))
       THEN CharCode(Head(s)) < CharCode(Head(t))
  ELSE TextLess(Tail(s), Tail(t))

\* The decimal digits of a natural number.
RECURSIVE NatText(_)
NatText(n) ==
  IF n < 10 THEN <<DigitChars[n + 1]>>
  ELSE NatText(n \div 10) \o <<DigitChars[(n % 10) + 1]>>

\* A NUMERIC value as node-postgres hands it to the handler: a string with
\* two fraction digits ("80.00"), or "NaN".
NumericText(x) ==
  IF x.k = "NaN" THEN <<"N", "a", "N">>
  ELSE LET m == IF x.n < 0 THEN 0 - x.n ELSE x.n
       IN (IF x.n < 0 THEN <<"-">> ELSE <<>>) \o NatText(m \div 100) \o <<".">>
          \o <<DigitChars[((m % 100) \div 10) + 1], DigitChars[(m % 10) + 1]>>

\* NUMERIC addition and multiplication: NaN absorbs.
NumericAdd(x, y) ==
  IF x.k = "NaN" \/ y.k = "NaN" THEN NaN ELSE Num(x.n + y.n)

NumericMul(x, y) ==
  IF x.k = "NaN" \/ y.k = "NaN" THEN NaN ELSE Num((x.n * y.n) \div 100)

\* Whether PostgreSQL reads the text s as a DATE: YYYY-MM-DD, month 1..12,
\* day 1..31.
IsDateText(s) ==
  /\ Len(s) = 10
  /\ \A i \in {1, 2, 3, 4, 6, 7, 9, 10} : IsDigit(s[i])
  /\ s[5] = "-" /\ s[8] = "-"
  /\ DigitsValue(s, 6, 2) \in 1..12
  /\ DigitsValue(s, 9, 2) \in 1..31

\* TO_CHAR with the format 'YYYY-MM-DD'.
ToCharYYYYMMDD(d) == SubSeq(d, 1, 10)

\* TO_CHAR(date, 'YYYY-MM').
ToCharYYYYMM(d) == SubSeq(d, 1, 7)

(***************************************************************************)
(* Bounds and request inputs                                                *)
(***************************************************************************)
\* Rows inserted over the three tables in one run.
MaxRows == 3

Resources == {"expenses", "earnings", "inventory"}

Jan15 == <<"2", "0", "2", "4", "-", "0", "1", "-", "1", "5">>
Jan20 == <<"2", "0", "2", "4", "-", "0", "1", "-", "2", "0">>
Feb01 == <<"2", "0", "2", "4", "-", "0", "2", "-", "0", "1">>

\* The :id path parameters tried: "1", "2", "1x" and "abc".
PathIds == {Str(<<"1">>), Str(<<"2">>), Str(<<"1", "x">>), Str(<<"a", "b", "c">>)}

\* b with the field f left out of the JSON body.
Omit(b, f) == [b EXCEPT ![f] = Undefined]

ExpenseRent ==
  [description |-> Str(<<"a">>), amount |-> Num(5000),
   category |-> Str(<<"c">>), date |-> Str(Jan15)]

ExpenseFuel ==
  [description |-> Str(<<"b">>), amount |-> Str(<<"3", "0">>),
   category |-> Str(<<"d">>), date |-> Str(Jan20)]

ExpenseFee ==
  [description |-> Str(<<"a">>), amount |-> Num(1000),
   category |-> Str(<<"c">>), date |-> Str(Feb01)]

\* b with an id field of its own, as the form sends the record it edits.
WithId(b, id) ==
  [f \in DOMAIN b \cup {"id"} |-> IF f = "id" THEN id ELSE b[f]]

\* Request bodies for /api/expenses: three well-formed ones, one that
\* carries an id, amount 0, amounts that are no number, and each required
\* field left out.
ExpenseBodies ==
  {ExpenseRent, ExpenseFuel, WithId(ExpenseFee, Num(200)),
   [ExpenseRent EXCEPT !.amount = Num(0)],
   [ExpenseRent EXCEPT !.amount = Str(<<"a", "b", "c">>)],
   [ExpenseRent EXCEPT !.amount = Null],
   [ExpenseRent EXCEPT !.amount = Str(<<>>)]}
  \cup {Omit(ExpenseRent, f) : f \in {"description", "amount", "category", "date"}}

EarningSale ==
  [description |-> Str(<<"a">>), amount |-> Num(8000),
   source |-> Str(<<"s">>), date |-> Str(Jan15)]

EarningFee ==
  [description |-> Str(<<"b">>), amount |-> Str(<<"2", ".", "5">>),
   source |-> Str(<<"c">>), date |-> Str(Feb01)]

EarningBodies ==
  {EarningSale, WithId(EarningFee, Num(200)),
   [EarningSale EXCEPT !.amount = Num(0)],
   [EarningSale EXCEPT !.amount = Str(<<"a", "b", "c">>)]}
  \cup {Omit(EarningSale, f) : f \in {"description", "amount", "source", "date"}}

ItemWidget ==
  [name |-> Str(<<"w">>), quantity |-> Num(10000), cost_price |-> Num(1050),
   selling_price |-> Num(1500), supplier |-> Str(<<"s">>)]

ItemValve ==
  [name |-> Str(<<"v">>), quantity |-> Num(0), cost_price |-> Num(0),
   selling_price |-> Str(<<"2", ".", "5">>), supplier |-> Undefined]

InventoryBodies ==
  {ItemWidget, WithId(ItemValve, Num(200)),
   [ItemWidget EXCEPT !.quantity = Null],
   [ItemWidget EXCEPT !.cost_price = Str(<<"a", "b", "c">>)],
   [ItemWidget EXCEPT !.name = Str(<<>>)]}
  \cup {Omit(ItemWidget, f) : f \in {"name", "quantity", "cost_price", "selling_price"}}

NoId == Undefined
NoBody == Undefined

(***************************************************************************)
(* Responses                                                                *)
(***************************************************************************)
\* sendResponse with the driver's error text sent in place of the handler's.
sendResponseLeaking(statusCode, dataOrMessage) ==
  IF statusCode >= 200 /\ statusCode < 300
  THEN [status |-> statusCode, body |-> dataOrMessage]
  ELSE [status |-> statusCode,
        body |-> [message |-> "connect ECONNREFUSED 127.0.0.1:5432"]]

sendResponse(statusCode, dataOrMessage) ==
  IF statusCode >= 200 /\ statusCode < 300
  THEN [status |-> statusCode, body |-> dataOrMessage]
  ELSE [status |-> statusCode, body |-> [message |-> dataOrMessage]]

(***************************************************************************)
(* The tables.  A row holds its id (an integer), its text and date columns  *)
(* as text, its NUMERIC columns as a number or NaN, its INTEGER column as   *)
(* a number, and the nullable supplier as a string or Null.                 *)
(***************************************************************************)
\* The id the table's sequence gives the next inserted row.
AssignId(t) == nextId[t]

\* The rows of S in every order that ORDER BY allows: B is the set of pairs
\* <<a, b>> of which a must come before b; rows that tie come in any order.
Ordered(S, B) ==
  {q \in [1..Cardinality(S) -> S] :
     /\ \A i, j \in 1..Cardinality(S) : i # j => q[i] # q[j]
     /\ \A i, j \in 1..Cardinality(S) : i < j => <<q[j], q[i]>> \notin B}

\* A bound parameter that PostgreSQL reads as an INTEGER: NaN is no integer.
IsIntegerParam(v) == v.k = "number" /\ v.n % 100 = 0

\* A bound parameter that PostgreSQL reads as a DATE.
IsDateParam(v) == v.k = "string" /\ IsDateText(v.s)

\* A row as the handler gets it from node-postgres: NUMERIC columns are
\* strings.  (The rendering of a DATE as a JavaScript Date is not modelled:
\* the date is given as its text.)
ExpenseRow(r) ==
  [id |-> r.id, description |-> Str(r.description),
   amount |-> Str(NumericText(r.amount)), category |-> Str(r.category),
   date |-> Str(r.date)]

EarningRow(r) ==
  [id |-> r.id, description |-> Str(r.description),
   amount |-> Str(NumericText(r.amount)), source |-> Str(r.source),
   date |-> Str(r.date)]

InventoryRow(r) ==
  [id |-> r.id, name |-> Str(r.name), quantity |-> r.quantity,
   cost_price |-> Str(NumericText(r.cost_price)),
   selling_price |-> Str(NumericText(r.selling_price)),
   supplier |-> r.supplier]

(***************************************************************************)
(* pool.query: the statement's outcome, or a rejection when the database    *)
(* is out of reach (up = FALSE).  threw is the rejected promise, rows is    *)
(* result.rows and table is the table after the statement.  A statement     *)
(* that PostgreSQL refuses for its data (NaN for an integer) throws too.    *)
(***************************************************************************)
Threw == [threw |-> TRUE]

Query(up, outcome) == IF up THEN outcome ELSE Threw

Served(up) == IF up THEN "served" ELSE "failed"

\* InsertExpense with the row returned but not kept.
InsertExpenseNotKept(table, description, amount, category, date) ==
  IF ~IsDateParam(date) THEN Threw
  ELSE LET row == [id |-> AssignId("expenses"), description |-> description.s,
                   amount |-> amount, category |-> category.s, date |-> date.s]
       IN [threw |-> FALSE, rows |-> {row}, table |-> table]

\* INSERT INTO expenses (description, amount, category, date) VALUES ($1..$4)
\* RETURNING *
InsertExpense(table, description, amount, category, date) ==
  IF ~IsDateParam(date) THEN Threw
  ELSE LET row == [id |-> AssignId("expenses"), description |-> description.s,
                   amount |-> amount, category |-> category.s, date |-> date.s]
       IN [threw |-> FALSE, rows |-> {row}, table |-> table \cup {row}]

\* The update done as a delete and an insert: the row gets a new id.
UpdateExpenseReinserted(table, description, amount, category, date, id) ==
  IF ~IsDateParam(date) \/ ~IsIntegerParam(id) THEN Threw
  ELSE LET hit == {r \in table : 100 * r.id = id.n}
           new == {[id |-> AssignId("expenses"), description |-> description.s,
                    amount |-> amount, category |-> category.s,
                    date |-> date.s] : r \in hit}
       IN [threw |-> FALSE, rows |-> new, table |-> (table \ hit) \cup new]

\* UPDATE expenses SET description = $1, amount = $2, category = $3, date = $4
\* WHERE id = $5 RETURNING *
UpdateExpense(table, description, amount, category, date, id) ==
  IF ~IsDateParam(date) \/ ~IsIntegerParam(id) THEN Threw
  ELSE LET hit == {r \in table : 100 * r.id = id.n}
           new == {[id |-> r.id, description |-> description.s, amount |-> amount,
                    category |-> category.s, date |-> date.s] : r \in hit}
       IN [threw |-> FALSE, rows |-> new, table |-> (table \ hit) \cup new]

\* DeleteRow with the rows returned but left in the table.
DeleteRowKept(table, id) ==
  IF ~IsIntegerParam(id) THEN Threw
  ELSE LET hit == {r \in table : 100 * r.id = id.n}
       IN [threw |-> FALSE, rows |-> hit, table |-> table]

\* DELETE FROM <table> WHERE id = $1 RETURNING *
DeleteRow(table, id) ==
  IF ~IsIntegerParam(id) THEN Threw
  ELSE LET hit == {r \in table : 100 * r.id = id.n}
       IN [threw |-> FALSE, rows |-> hit, table |-> table \ hit]

\* ORDER BY date, the DESC left out.
DateAsc(S) == {p \in S \X S : TextLess(p[1].date, p[2].date)}

\* ORDER BY date DESC
DateDesc(S) == {p \in S \X S : TextLess(p[2].date, p[1].date)}

\* ORDER BY name ASC
NameAsc(S) == {p \in S \X S : TextLess(p[1].name, p[2].name)}

\* The required-field checks of the expense handlers.
ExpenseMissing(body) ==
  \/ ~Truthy(body.description)
  \/ ~Truthy(body.amount)
  \/ ~Truthy(body.category)
  \/ ~Truthy(body.date)

\* The one element of a one-element set (result.rows[0]).
First(S) == CHOOSE r \in S : TRUE

\* A handler is entered with the request; the exchange before it is over.
Accept(method, path, id, body) ==
  /\ req.method = "NONE"
  /\ req' = [method |-> method, path |-> path, id |-> id, body |-> body]
  /\ before' = db
  /\ UNCHANGED <<calls, env, logins, flow, browser>>

(***************************************************************************)
(* Expenses routes                                                          *)
(***************************************************************************)
GetExpenses(up) ==
  /\ Accept("GET", "expenses", NoId, NoBody)
  /\ query' = Served(up)
  /\ UNCHANGED removed
  /\ IF up
     THEN \E q \in Ordered(db.expenses, DateDesc(db.expenses)) :
            res' = sendResponse(200, [i \in DOMAIN q |-> ExpenseRow(q[i])])
     ELSE res' = sendResponse(500, "Failed to fetch expenses")
  /\ UNCHANGED <<db, nextId, issued>>

PostExpense(body, up) ==
  /\ Accept("POST", "expenses", NoId, body)
  /\ UNCHANGED removed
  /\ IF ExpenseMissing(body)
     THEN /\ res' = sendResponse(400, "Missing required fields for expense")
          /\ query' = "none"
          /\ UNCHANGED <<db, nextId, issued>>
     ELSE LET result == Query(up, InsertExpense(db.expenses, body.description,
                                parseFloat(body.amount), body.category, body.date))
          IN /\ query' = Served(up)
             /\ IF result.threw
                THEN /\ res' = sendResponse(500, "Failed to add expense")
                     /\ UNCHANGED <<db, nextId, issued>>
                ELSE /\ res' = sendResponse(201, ExpenseRow(First(result.rows)))
                     /\ db' = [db EXCEPT !.expenses = result.table]
                     /\ nextId' = [nextId EXCEPT !.expenses = @ + 1]
                     /\ issued' = [issued EXCEPT
                                     !.expenses = Append(@, First(result.rows).id)]

PutExpense(id, body, up) ==
  /\ Accept("PUT", "expenses", id, body)
  /\ UNCHANGED <<nextId, issued, removed>>
  /\ IF ExpenseMissing(body)
     THEN /\ res' = sendResponse(400, "Missing required fields for expense update")
          /\ query' = "none"
          /\ UNCHANGED db
     ELSE LET result == Query(up, UpdateExpense(db.expenses, body.description,
                                parseFloat(body.amount), body.category, body.date,
                                parseInt(id)))
          IN /\ query' = Served(up)
             /\ IF result.threw
                THEN res' = sendResponse(500, "Failed to update expense") /\ UNCHANGED db
                ELSE IF Cardinality(result.rows) = 0
                THEN res' = sendResponse(404, "Expense not found") /\ UNCHANGED db
                ELSE /\ res' = sendResponse(200, ExpenseRow(First(result.rows)))
                     /\ db' = [db EXCEPT !.expenses = result.table]

\* DELETE /api/expenses/:id with the row of the same id in earnings deleted
\* along with it.
DeleteExpenseCascading(id, up) ==
  /\ Accept("DELETE", "expenses", id, NoBody)
  /\ UNCHANGED <<nextId, issued>>
  /\ query' = Served(up)
  /\ LET result == Query(up, DeleteRow(db.expenses, parseInt(id)))
     IN IF result.threw
        THEN /\ res' = sendResponse(500, "Failed to delete expense")
             /\ UNCHANGED <<db, removed>>
        ELSE IF Cardinality(result.rows) = 0
        THEN /\ res' = sendResponse(404, "Expense not found")
             /\ UNCHANGED <<db, removed>>
        ELSE /\ res' = sendResponse(200, [message |-> "Expense deleted successfully"])
             /\ db' = [db EXCEPT
                         !.expenses = result.table,
                         !.earnings = DeleteRow(db.earnings, parseInt(id)).table]
             /\ removed' = [removed EXCEPT
                              !.expenses = @ \cup {r.id : r \in result.rows}]

DeleteExpense(id, up) ==
  /\ Accept("DELETE", "expenses", id, NoBody)
  /\ UNCHANGED <<nextId, issued>>
  /\ query' = Served(up)
  /\ LET result == Query(up, DeleteRow(db.expenses, parseInt(id)))
     IN IF result.threw
        THEN /\ res' = sendResponse(500, "Failed to delete expense")
             /\ UNCHANGED <<db, removed>>
        ELSE IF Cardinality(result.rows) = 0
        THEN /\ res' = sendResponse(404, "Expense not found")
             /\ UNCHANGED <<db, removed>>
        ELSE /\ res' = sendResponse(200, [message |-> "Expense deleted successfully"])
             /\ db' = [db EXCEPT !.expenses = result.table]
             /\ removed' = [removed EXCEPT
                              !.expenses = @ \cup {r.id : r \in result.rows}]

(***************************************************************************)
(* Earnings routes                                                          *)
(***************************************************************************)
\* INSERT INTO earnings (description, amount, source, date) VALUES ($1..$4)
\* RETURNING *
InsertEarning(table, description, amount, source, date) ==
  IF ~IsDateParam(date) THEN Threw
  ELSE LET row == [id |-> AssignId("earnings"), description |-> description.s,
                   amount |-> amount, source |-> source.s, date |-> date.s]
       IN [threw |-> FALSE, rows |-> {row}, table |-> table \cup {row}]

\* UPDATE earnings SET description = $1, amount = $2, source = $3, date = $4
\* WHERE id = $5 RETURNING *
UpdateEarning(table, description, amount, source, date, id) ==
  IF ~IsDateParam(date) \/ ~IsIntegerParam(id) THEN Threw
  ELSE LET hit == {r \in table : 100 * r.id = id.n}
           new == {[id |-> r.id, description |-> description.s, amount |-> amount,
                    source |-> source.s, date |-> date.s] : r \in hit}
       IN [threw |-> FALSE, rows |-> new, table |-> (table \ hit) \cup new]

\* The required-field checks of the earning handlers.
EarningMissing(body) ==
  \/ ~Truthy(body.description)
  \/ ~Truthy(body.amount)
  \/ ~Truthy(body.source)
  \/ ~Truthy(body.date)

GetEarnings(up) ==
  /\ Accept("GET", "earnings", NoId, NoBody)
  /\ query' = Served(up)
  /\ UNCHANGED removed
  /\ IF up
     THEN \E q \in Ordered(db.earnings, DateDesc(db.earnings)) :
            res' = sendResponse(200, [i \in DOMAIN q |-> EarningRow(q[i])])
     ELSE res' = sendResponse(500, "Failed to fetch earnings")
  /\ UNCHANGED <<db, nextId, issued>>

PostEarning(body, up) ==
  /\ Accept("POST", "earnings", NoId, body)
  /\ UNCHANGED removed
  /\ IF EarningMissing(body)
     THEN /\ res' = sendResponse(400, "Missing required fields for earning")
          /\ query' = "none"
          /\ UNCHANGED <<db, nextId, issued>>
     ELSE LET result == Query(up, InsertEarning(db.earnings, body.description,
                                parseFloat(body.amount), body.source, body.date))
          IN /\ query' = Served(up)
             /\ IF result.threw
                THEN /\ res' = sendResponse(500, "Failed to add earning")
                     /\ UNCHANGED <<db, nextId, issued>>
                ELSE /\ res' = sendResponse(201, EarningRow(First(result.rows)))
                     /\ db' = [db EXCEPT !.earnings = result.table]
                     /\ nextId' = [nextId EXCEPT !.earnings = @ + 1]
                     /\ issued' = [issued EXCEPT
                                     !.earnings = Append(@, First(result.rows).id)]

PutEarning(id, body, up) ==
  /\ Accept("PUT", "earnings", id, body)
  /\ UNCHANGED <<nextId, issued, removed>>
  /\ IF EarningMissing(body)
     THEN /\ res' = sendResponse(400, "Missing required fields for earning update")
          /\ query' = "none"
          /\ UNCHANGED db
     ELSE LET result == Query(up, UpdateEarning(db.earnings, body.description,
                                parseFloat(body.amount), body.source, body.date,
                                parseInt(id)))
          IN /\ query' = Served(up)
             /\ IF result.threw
                THEN res' = sendResponse(500, "Failed to update earning") /\ UNCHANGED db
                ELSE IF Cardinality(result.rows) = 0
                THEN res' = sendResponse(404, "Earning not found") /\ UNCHANGED db
                ELSE /\ res' = sendResponse(200, EarningRow(First(result.rows)))
                     /\ db' = [db EXCEPT !.earnings = result.table]

DeleteEarning(id, up) ==
  /\ Accept("DELETE", "earnings", id, NoBody)
  /\ UNCHANGED <<nextId, issued>>
  /\ query' = Served(up)
  /\ LET result == Query(up, DeleteRow(db.earnings, parseInt(id)))
     IN IF result.threw
        THEN /\ res' = sendResponse(500, "Failed to delete earning")
             /\ UNCHANGED <<db, removed>>
        ELSE IF Cardinality(result.rows) = 0
        THEN /\ res' = sendResponse(404, "Earning not found")
             /\ UNCHANGED <<db, removed>>
        ELSE /\ res' = sendResponse(200, [message |-> "Earning deleted successfully"])
             /\ db' = [db EXCEPT !.earnings = result.table]
             /\ removed' = [removed EXCEPT
                              !.earnings = @ \cup {r.id : r \in result.rows}]

(***************************************************************************)
(* Inventory routes                                                         *)
(***************************************************************************)
\* A bound parameter of a nullable text column: node-postgres sends
\* undefined as NULL.
TextOrNull(v) == IF v.k = "undefined" \/ v.k = "null" THEN Null ELSE v

\* INSERT INTO inventory (name, quantity, cost_price, selling_price, supplier)
\* VALUES ($1..$5) RETURNING *
InsertInventory(table, name, quantity, cost_price, selling_price, supplier) ==
  IF ~IsIntegerParam(quantity) THEN Threw
  ELSE LET row == [id |-> AssignId("inventory"), name |-> name.s,
                   quantity |-> quantity, cost_price |-> cost_price,
                   selling_price |-> selling_price,
                   supplier |-> TextOrNull(supplier)]
       IN [threw |-> FALSE, rows |-> {row}, table |-> table \cup {row}]

\* UPDATE inventory SET name = $1, quantity = $2, cost_price = $3,
\* selling_price = $4, supplier = $5 WHERE id = $6 RETURNING *
UpdateInventory(table, name, quantity, cost_price, selling_price, supplier, id) ==
  IF ~IsIntegerParam(quantity) \/ ~IsIntegerParam(id) THEN Threw
  ELSE LET hit == {r \in table : 100 * r.id = id.n}
           new == {[id |-> r.id, name |-> name.s, quantity |-> quantity,
                    cost_price |-> cost_price, selling_price |-> selling_price,
                    supplier |-> TextOrNull(supplier)] : r \in hit}
       IN [threw |-> FALSE, rows |-> new, table |-> (table \ hit) \cup new]

\* InventoryMissing without the check of quantity.
InventoryMissingNoQuantity(body) ==
  \/ ~Truthy(body.name)
  \/ body.cost_price = Undefined
  \/ body.selling_price = Undefined

\* The required-field checks of the inventory handlers.
InventoryMissing(body) ==
  \/ ~Truthy(body.name)
  \/ body.quantity = Undefined
  \/ body.cost_price = Undefined
  \/ body.selling_price = Undefined

GetInventory(up) ==
  /\ Accept("GET", "inventory", NoId, NoBody)
  /\ query' = Served(up)
  /\ IF up
     THEN \E q \in Ordered(db.inventory, NameAsc(db.inventory)) :
            res' = sendResponse(200, [i \in DOMAIN q |-> InventoryRow(q[i])])
     ELSE res' = sendResponse(500, "Failed to fetch inventory items")
  /\ UNCHANGED <<db, nextId, issued, removed>>

PostInventory(body, up) ==
  /\ Accept("POST", "inventory", NoId, body)
  /\ UNCHANGED removed
  /\ IF InventoryMissing(body)
     THEN /\ res' = sendResponse(400, "Missing required fields for inventory item")
          /\ query' = "none"
          /\ UNCHANGED <<db, nextId, issued>>
     ELSE LET result == Query(up, InsertInventory(db.inventory, body.name,
                                parseInt(body.quantity), parseFloat(body.cost_price),
                                parseFloat(body.selling_price), body.supplier))
          IN /\ query' = Served(up)
             /\ IF result.threw
                THEN /\ res' = sendResponse(500, "Failed to add inventory item")
                     /\ UNCHANGED <<db, nextId, issued>>
                ELSE /\ res' = sendResponse(201, InventoryRow(First(result.rows)))
                     /\ db' = [db EXCEPT !.inventory = result.table]
                     /\ nextId' = [nextId EXCEPT !.inventory = @ + 1]
                     /\ issued' = [issued EXCEPT
                                     !.inventory = Append(@, First(result.rows).id)]

PutInventory(id, body, up) ==
  /\ Accept("PUT", "inventory", id, body)
  /\ UNCHANGED <<nextId, issued, removed>>
  /\ IF InventoryMissing(body)
     THEN /\ res' = sendResponse(400, "Missing required fields for inventory item update")
          /\ query' = "none"
          /\ UNCHANGED db
     ELSE LET result == Query(up, UpdateInventory(db.inventory, body.name,
                                parseInt(body.quantity), parseFloat(body.cost_price),
                                parseFloat(body.selling_price), body.supplier,
                                parseInt(id)))
          IN /\ query' = Served(up)
             /\ IF result.threw
                THEN /\ res' = sendResponse(500, "Failed to update inventory item")
                     /\ UNCHANGED db
                ELSE IF Cardinality(result.rows) = 0
                THEN res' = sendResponse(404, "Inventory item not found") /\ UNCHANGED db
                ELSE /\ res' = sendResponse(200, InventoryRow(First(result.rows)))
                     /\ db' = [db EXCEPT !.inventory = result.table]

DeleteInventory(id, up) ==
  /\ Accept("DELETE", "inventory", id, NoBody)
  /\ UNCHANGED <<nextId, issued>>
  /\ query' = Served(up)
  /\ LET result == Query(up, DeleteRow(db.inventory, parseInt(id)))
     IN IF result.threw
        THEN /\ res' = sendResponse(500, "Failed to delete inventory item")
             /\ UNCHANGED <<db, removed>>
        ELSE IF Cardinality(result.rows) = 0
        THEN /\ res' = sendResponse(404, "Inventory item not found")
             /\ UNCHANGED <<db, removed>>
        ELSE /\ res' = sendResponse(200,
                         [message |-> "Inventory item deleted successfully"])
             /\ db' = [db EXCEPT !.inventory = result.table]
             /\ removed' = [removed EXCEPT
                              !.inventory = @ \cup {r.id : r \in result.rows}]

(***************************************************************************)
(* Dashboard summary                                                        *)
(***************************************************************************)
\* The sum of the values v of the set P of pairs [id, v], from zero.
RECURSIVE SumValues(_)
SumValues(P) ==
  IF P = {} THEN Num(0)
  ELSE LET p == CHOOSE x \in P : TRUE
       IN NumericAdd(p.v, SumValues(P \ {p}))

\* The aggregate SUM as node-postgres hands it over: null over no rows,
\* else the NUMERIC sum as a string.
SumColumn(P) ==
  IF P = {} THEN Null ELSE Str(NumericText(SumValues(P)))

\* amount, row by row
Amounts(table) == {[id |-> r.id, v |-> r.amount] : r \in table}

\* quantity * cost_price, row by row
StockValues(table) ==
  {[id |-> r.id, v |-> NumericMul(r.quantity, r.cost_price)] : r \in table}

\* SUM(amount) answered from a result kept from before the first write.
TotalAmountKept(table) == SumColumn({})

\* SELECT SUM(amount) AS total_expenses FROM expenses (and FROM earnings)
TotalAmount(table) == SumColumn(Amounts(table))

\* SELECT SUM(quantity * cost_price) AS total_inventory_value FROM inventory
TotalInventoryValue(table) == SumColumn(StockValues(table))

\* ORDER BY month
MonthAsc(S) == {p \in S \X S : TextLess(p[1].month.s, p[2].month.s)}

\* SELECT TO_CHAR(date, 'YYYY-MM') AS month, SUM(amount) AS total
\* FROM <table> GROUP BY month ORDER BY month: the set of result sequences.
Monthly(table) ==
  LET months == {ToCharYYYYMM(r.date) : r \in table}
      group(m) == {r \in table : ToCharYYYYMM(r.date) = m}
      rows == {[month |-> Str(m), total |-> SumColumn(Amounts(group(m)))] :
                 m \in months}
  IN Ordered(rows, MonthAsc(rows))

\* x || 0 with the fallback left out.
OrZeroKept(x) == x

\* x || 0
OrZero(x) == IF Truthy(x) THEN x ELSE Num(0)

\* a - b on JavaScript numbers.
Minus(a, b) == IF a.k = "NaN" \/ b.k = "NaN" THEN NaN ELSE Num(a.n - b.n)

\* The summary object the handler builds from its five results.
SummaryOf(total_expenses, total_earnings, total_inventory_value, monthlyExpensesRows, monthlyEarningsRows) ==
  [totalExpenses |-> OrZero(parseFloat(total_expenses)),
   totalEarnings |-> OrZero(parseFloat(total_earnings)),
   netProfit |-> Minus(OrZero(parseFloat(total_earnings)),
                       OrZero(parseFloat(total_expenses))),
   totalInventoryValue |-> OrZero(parseFloat(total_inventory_value)),
   monthlyExpenses |-> monthlyExpensesRows,
   monthlyEarnings |-> monthlyEarningsRows]

\* GET /api/summary, its five statements run with no write between them.
GetSummary(up) ==
  /\ Accept("GET", "summary", NoId, NoBody)
  /\ query' = Served(up)
  /\ IF up
     THEN \E me \in Monthly(db.expenses), mr \in Monthly(db.earnings) :
            res' = sendResponse(200,
                     SummaryOf(TotalAmount(db.expenses), TotalAmount(db.earnings),
                               TotalInventoryValue(db.inventory), me, mr))
     ELSE res' = sendResponse(500, "Failed to fetch summary data")
  /\ UNCHANGED <<db, nextId, issued, removed>>

(***************************************************************************)
(* The system                                                               *)
(***************************************************************************)
NoRequest == [method |-> "NONE", path |-> "", id |-> NoId, body |-> NoBody]
NoResponse == [status |-> 0, body |-> NoBody]

\* The clients whose requests run alongside the exchange in hand.
Clients == {"c1", "c2"}

\* A client that has sent nothing.  Of a request under way: op names the
\* route, got lists the results of the statements it has awaited and res is
\* the response once sent.  log is history, one entry for each statement:
\* the tables as the statement found them (saw), whether the database
\* answered (up) and the number of clients' statements run before it (nth).
\* after is history too: the clients that had their response when this
\* request came in.
NoCall ==
  [op |-> "none", id |-> NoId, body |-> NoBody, got |-> <<>>,
   res |-> NoResponse, log |-> <<>>, after |-> {}]

\* The deployment the resource routes are taken in: production, with the
\* operator's credentials set.
Deployed ==
  [NODE_ENV |-> Str(<<"p", "r", "o", "d">>), BASIC_AUTH_USER |-> Str(<<"a">>),
   BASIC_AUTH_PASSWORD |-> Str(<<"x">>)]

NoLogins == [tries |-> 0, passed |-> 0, last |-> 0]

\* Requests the client sends in a run.
MaxCalls == 4

\* formData and the fields of an item: a property not set reads as undefined.
NoForm ==
  [id |-> Undefined, description |-> Undefined, amount |-> Undefined,
   category |-> Undefined, date |-> Undefined]

\* The state of a CrudPage and of a DashboardPage that is not mounted.
NoCrud ==
  [items |-> <<>>, isLoading |-> FALSE, isModalOpen |-> FALSE,
   currentItem |-> Null, formData |-> NoForm]

NoDash == [loading |-> FALSE, summary |-> Null, chartData |-> Null]

\* The application is not open in the browser.
NoUi ==
  [view |-> "none", user |-> Null, loading |-> FALSE, dash |-> NoDash,
   crud |-> NoCrud]

\* No request of the client is under way; left counts the requests it may
\* still send in a run, and deleted lists the ids whose delete it has seen
\* succeed.
NoNet(left) == [flight |-> <<>>, left |-> left, deleted |-> {}]

\* No handler is under way.
NoFlow == [pc |-> "idle", route |-> "none", sent |-> <<>>]

\* The server as started, the tables as created.
Started ==
  /\ db = [t \in Resources |-> {}]
  /\ nextId = [t \in Resources |-> 1]
  /\ req = NoRequest
  /\ res = NoResponse
  /\ query = "none"
  /\ before = [t \in Resources |-> {}]
  /\ issued = [t \in Resources |-> <<>>]
  /\ removed = [t \in Resources |-> {}]
  /\ calls = [c \in Clients |-> NoCall]
  /\ logins = NoLogins
  /\ flow = NoFlow
  /\ ui = NoUi
  /\ net = NoNet(MaxCalls)
  /\ storage = Null

Init == Started /\ env = Deployed

\* The response has been sent: the exchange is over.
Close ==
  /\ req.method # "NONE"
  /\ req' = NoRequest
  /\ res' = NoResponse
  /\ query' = "none"
  /\ before' = db
  /\ UNCHANGED <<db, nextId, issued, removed, calls, env, logins, flow, browser>>

\* Rows inserted so far.
Inserted == Len(issued.expenses) + Len(issued.earnings) + Len(issued.inventory)

Next ==
  \/ \E up \in BOOLEAN : GetExpenses(up)
  \/ \E b \in ExpenseBodies, up \in BOOLEAN : Inserted < MaxRows /\ PostExpense(b, up)
  \/ \E i \in PathIds, b \in ExpenseBodies, up \in BOOLEAN : PutExpense(i, b, up)
  \/ \E i \in PathIds, up \in BOOLEAN : DeleteExpense(i, up)
  \/ \E up \in BOOLEAN : GetEarnings(up)
  \/ \E b \in EarningBodies, up \in BOOLEAN : Inserted < MaxRows /\ PostEarning(b, up)
  \/ \E i \in PathIds, b \in EarningBodies, up \in BOOLEAN : PutEarning(i, b, up)
  \/ \E i \in PathIds, up \in BOOLEAN : DeleteEarning(i, up)
  \/ \E up \in BOOLEAN : GetInventory(up)
  \/ \E b \in InventoryBodies, up \in BOOLEAN : Inserted < MaxRows /\ PostInventory(b, up)
  \/ \E i \in PathIds, b \in InventoryBodies, up \in BOOLEAN : PutInventory(i, b, up)
  \/ \E i \in PathIds, up \in BOOLEAN : DeleteInventory(i, up)
  \/ \E up \in BOOLEAN : GetSummary(up)
  \/ Close

Spec == Init /\ [][Next]_vars

(***************************************************************************)
(***************************************************************************)
(* Requests under way at the same time.  A handler runs up to its await,    *)
(* the statement runs on the tables as they are when the database takes     *)
(* it, and the handler goes on with the result; between two of these steps  *)
(* other handlers take theirs.  The update of an expense and the summary    *)
(* are taken statement by statement, each client sending one request.       *)
(***************************************************************************)
\* Rows inserted in a run with clients.
RaceRows == 2

RacePathIds == {Str(<<"1">>), Str(<<"2">>)}

RaceExpenseBodies ==
  {ExpenseRent, ExpenseFee,
   [ExpenseRent EXCEPT !.amount = Num(0)],
   [ExpenseFee EXCEPT !.amount = Str(<<"a", "b", "c">>)]}

\* The number of statements the clients' requests have run so far.
RECURSIVE StatementsRun(_)
StatementsRun(C) ==
  IF C = {} THEN 0
  ELSE LET c == CHOOSE x \in C : TRUE
       IN Len(calls[c].log) + StatementsRun(C \ {c})

\* The request of client c waits for a statement.
Waiting(c) == calls[c].op # "none" /\ calls[c].res = NoResponse

\* Client c's statement is taken: what it found and when.
Taken(c, up) ==
  [calls[c] EXCEPT !.log = Append(@,
     [saw |-> db, up |-> up, nth |-> StatementsRun(Clients)])]

\* Client c sends a request to route op.
Sent(c, op) ==
  [calls[c] EXCEPT !.op = op,
                   !.after = {d \in Clients : calls[d].res # NoResponse}]

\* PUT /api/expenses/:id up to its await: the check of the body.
PutExpenseBegin(c, id, body) ==
  /\ calls[c].op = "none"
  /\ calls' = [calls EXCEPT ![c] =
       [Sent(c, "PUT") EXCEPT
                 !.id = id, !.body = body,
                 !.res = IF ExpenseMissing(body)
                         THEN sendResponse(400, "Missing required fields for expense update")
                         ELSE NoResponse]]
  /\ UNCHANGED <<db, nextId, req, res, query, before, issued, removed, env, logins, flow, browser>>

\* PUT /api/expenses/:id from its await on: the statement and the response.
PutExpenseQuery(c, up) ==
  /\ calls[c].op = "PUT"
  /\ Waiting(c)
  /\ LET body == calls[c].body
         result == Query(up, UpdateExpense(db.expenses, body.description,
                               parseFloat(body.amount), body.category, body.date,
                               parseInt(calls[c].id)))
     IN IF result.threw
        THEN /\ calls' = [calls EXCEPT ![c] =
                  [Taken(c, up) EXCEPT !.res = sendResponse(500, "Failed to update expense")]]
             /\ UNCHANGED db
        ELSE IF Cardinality(result.rows) = 0
        THEN /\ calls' = [calls EXCEPT ![c] =
                  [Taken(c, up) EXCEPT !.res = sendResponse(404, "Expense not found")]]
             /\ UNCHANGED db
        ELSE /\ calls' = [calls EXCEPT ![c] =
                  [Taken(c, up) EXCEPT
                     !.res = sendResponse(200, ExpenseRow(First(result.rows)))]]
             /\ db' = [db EXCEPT !.expenses = result.table]
  /\ UNCHANGED <<nextId, req, res, query, before, issued, removed, env, logins, flow, browser>>

\* GET /api/summary up to its first await.
SummaryBegin(c) ==
  /\ calls[c].op = "none"
  /\ calls' = [calls EXCEPT ![c] = Sent(c, "summary")]
  /\ UNCHANGED <<db, nextId, req, res, query, before, issued, removed, env, logins, flow, browser>>

\* The results the summary's statement k can give on the tables as they are.
SummaryStatement(k) ==
  IF k = 1 THEN {TotalAmount(db.expenses)}
  ELSE IF k = 2 THEN {TotalAmount(db.earnings)}
  ELSE IF k = 3 THEN {TotalInventoryValue(db.inventory)}
  ELSE IF k = 4 THEN Monthly(db.expenses)
  ELSE Monthly(db.earnings)

\* GET /api/summary: its next statement; after the fifth, or after one that
\* is rejected, the response.
SummaryQuery(c, up) ==
  /\ calls[c].op = "summary"
  /\ Waiting(c)
  /\ IF up
     THEN \E r \in SummaryStatement(Len(calls[c].got) + 1) :
            LET got == Append(calls[c].got, r)
            IN calls' = [calls EXCEPT ![c] =
                 [Taken(c, up) EXCEPT
                    !.got = got,
                    !.res = IF Len(got) = 5
                            THEN sendResponse(200,
                                   SummaryOf(got[1], got[2], got[3], got[4], got[5]))
                            ELSE NoResponse]]
     ELSE calls' = [calls EXCEPT ![c] =
            [Taken(c, up) EXCEPT !.res = sendResponse(500, "Failed to fetch summary data")]]
  /\ UNCHANGED <<db, nextId, req, res, query, before, issued, removed, env, logins, flow, browser>>

\* No client has sent its request yet.
Quiet == \A c \in Clients : calls[c] = NoCall

NextRace ==
  \/ \E b \in {ExpenseRent, ExpenseFee} : Quiet /\ Inserted < RaceRows /\ PostExpense(b, TRUE)
  \/ Quiet /\ Inserted < RaceRows /\ PostEarning(EarningSale, TRUE)
  \/ \E i \in RacePathIds : Quiet /\ DeleteExpense(i, TRUE)
  \/ Close
  \/ \E c \in Clients, i \in RacePathIds, b \in RaceExpenseBodies : PutExpenseBegin(c, i, b)
  \/ \E c \in Clients, up \in BOOLEAN : PutExpenseQuery(c, up)
  \/ \E c \in Clients : SummaryBegin(c)
  \/ \E c \in Clients, up \in BOOLEAN : SummaryQuery(c, up)

SpecRace == Init /\ [][NextRace]_vars

(***************************************************************************)
(* Authentication: the login route, and the basicAuth middleware, which is  *)
(* defined but which no route is passed through.                            *)
(***************************************************************************)
\* Login requests answered in a run.
MaxLogins == 2

\* Rows inserted in a run with logins.
AuthRows == 1

\* The deployments: production with both credentials set, development
\* with both set, and ones where a credential is unset or empty.
Envs ==
  {Deployed,
   [Deployed EXCEPT !.NODE_ENV = Undefined],
   [Deployed EXCEPT !.BASIC_AUTH_USER = Undefined],
   [Deployed EXCEPT !.BASIC_AUTH_USER = Str(<<>>)],
   [Deployed EXCEPT !.BASIC_AUTH_PASSWORD = Undefined],
   [Deployed EXCEPT !.BASIC_AUTH_USER = Undefined, !.BASIC_AUTH_PASSWORD = Undefined]}

\* Bodies of POST /api/auth/login: each field right, wrong or left out.
LoginBodies ==
  [username : {Str(<<"a">>), Str(<<"b">>), Undefined},
   password : {Str(<<"x">>), Str(<<"y">>), Undefined}]

\* The Authorization header of a request: none, or Basic credentials, given
\* as the text that the base64 part decodes to.
Headers == {Undefined, Str(<<"a", ":", "x">>), Str(<<"b", ":", "x">>)}

\* a === b
StrictEquals(a, b) == a = b /\ a # NaN

\* The comparison with the password left out of it.
MatchesUserOnly(username, password, appUser, appPassword) ==
  StrictEquals(username, appUser)

\* username === appUser && password === appPassword
Matches(username, password, appUser, appPassword) ==
  StrictEquals(username, appUser) /\ StrictEquals(password, appPassword)

\* The check of the configuration left out.
NotConfiguredSkipped(appUser, appPassword) == FALSE

\* !appUser || !appPassword
NotConfigured(appUser, appPassword) == ~Truthy(appUser) \/ ~Truthy(appPassword)

\* POST /api/auth/login
Login(body) ==
  /\ req.method = "NONE"
  /\ logins.tries < MaxLogins
  /\ req' = [method |-> "POST", path |-> "login", id |-> NoId, body |-> body]
  /\ before' = db
  /\ query' = "none"
  /\ LET appUser == env.BASIC_AUTH_USER
         appPassword == env.BASIC_AUTH_PASSWORD
         sent ==
           IF NotConfigured(appUser, appPassword)
           THEN sendResponse(500, "Authentication not configured on server.")
           ELSE IF Matches(body.username, body.password, appUser, appPassword)
           THEN sendResponse(200, [message |-> "Login successful",
                                   user |-> [username |-> body.username]])
           ELSE sendResponse(401, "Invalid username or password")
     IN /\ res' = sent
        /\ logins' = [tries |-> logins.tries + 1,
                      passed |-> logins.passed + (IF sent.status = 200 THEN 1 ELSE 0),
                      last |-> sent.status]
  /\ UNCHANGED <<db, nextId, issued, removed, calls, env, flow, browser>>

\* The parts of s between its colons: s.split(':').
RECURSIVE Split(_)
Split(s) ==
  IF \A i \in 1..Len(s) : s[i] # ":" THEN <<s>>
  ELSE LET i == CHOOSE j \in 1..Len(s) :
                  s[j] = ":" /\ \A k \in 1..(j - 1) : s[k] # ":"
       IN <<SubSeq(s, 1, i - 1)>> \o Split(SubSeq(s, i + 1, Len(s)))

\* Element i of the array q, undefined past its end.
Element(q, i) == IF i \in DOMAIN q THEN Str(q[i]) ELSE Undefined

\* basicAuth(req, res, next): next is called, or a 401 is sent.
basicAuth(authHeader) ==
  IF \/ env.NODE_ENV # Str(<<"p", "r", "o", "d">>)
     \/ ~Truthy(env.BASIC_AUTH_USER)
     \/ ~Truthy(env.BASIC_AUTH_PASSWORD)
  THEN [next |-> TRUE]
  ELSE IF ~Truthy(authHeader)
  THEN [next |-> FALSE,
        res |-> [status |-> 401, body |-> [message |-> "Authentication required"]]]
  ELSE LET parts == Split(authHeader.s)
       IN IF /\ StrictEquals(Element(parts, 1), env.BASIC_AUTH_USER)
             /\ StrictEquals(Element(parts, 2), env.BASIC_AUTH_PASSWORD)
          THEN [next |-> TRUE]
          ELSE [next |-> FALSE,
                res |-> [status |-> 401, body |-> [message |-> "Invalid credentials"]]]

\* app.use(basicAuth) in place.
BasicAuthUsed == TRUE

\* app.use(basicAuth) is commented out.
UsesBasicAuth == FALSE

\* A request with the Authorization header h on its way to the handler
\* step A of its route.
Through(h, method, path, id, body, A) ==
  IF UsesBasicAuth /\ ~basicAuth(h).next
  THEN /\ Accept(method, path, id, body)
       /\ res' = basicAuth(h).res
       /\ query' = "none"
       /\ UNCHANGED <<db, nextId, issued, removed>>
  ELSE A

NextAuth ==
  \/ \E b \in LoginBodies : Login(b)
  \/ \E h \in Headers, up \in BOOLEAN :
       Through(h, "GET", "expenses", NoId, NoBody, GetExpenses(up))
  \/ \E h \in Headers, b \in {ExpenseRent, Omit(ExpenseRent, "amount")}, up \in BOOLEAN :
       /\ Inserted < AuthRows
       /\ Through(h, "POST", "expenses", NoId, b, PostExpense(b, up))
  \/ \E h \in Headers, i \in {Str(<<"1">>)}, b \in {ExpenseFee}, up \in BOOLEAN :
       Through(h, "PUT", "expenses", i, b, PutExpense(i, b, up))
  \/ \E h \in Headers, i \in {Str(<<"1">>)}, up \in BOOLEAN :
       Through(h, "DELETE", "expenses", i, NoBody, DeleteExpense(i, up))
  \/ \E h \in Headers, up \in BOOLEAN :
       Through(h, "GET", "earnings", NoId, NoBody, GetEarnings(up))
  \/ \E h \in Headers, b \in {EarningSale}, up \in BOOLEAN :
       /\ Inserted < AuthRows
       /\ Through(h, "POST", "earnings", NoId, b, PostEarning(b, up))
  \/ \E h \in Headers, i \in {Str(<<"1">>)}, b \in {EarningFee}, up \in BOOLEAN :
       Through(h, "PUT", "earnings", i, b, PutEarning(i, b, up))
  \/ \E h \in Headers, i \in {Str(<<"1">>)}, up \in BOOLEAN :
       Through(h, "DELETE", "earnings", i, NoBody, DeleteEarning(i, up))
  \/ \E h \in Headers, up \in BOOLEAN :
       Through(h, "GET", "inventory", NoId, NoBody, GetInventory(up))
  \/ \E h \in Headers, b \in {ItemWidget}, up \in BOOLEAN :
       /\ Inserted < AuthRows
       /\ Through(h, "POST", "inventory", NoId, b, PostInventory(b, up))
  \/ \E h \in Headers, i \in {Str(<<"1">>)}, b \in {ItemValve}, up \in BOOLEAN :
       Through(h, "PUT", "inventory", i, b, PutInventory(i, b, up))
  \/ \E h \in Headers, i \in {Str(<<"1">>)}, up \in BOOLEAN :
       Through(h, "DELETE", "inventory", i, NoBody, DeleteInventory(i, up))
  \/ \E h \in Headers, up \in BOOLEAN :
       Through(h, "GET", "summary", NoId, NoBody, GetSummary(up))
  \/ Close

InitAuth == Started /\ env \in Envs

SpecAuth == InitAuth /\ [][NextAuth]_vars

(***************************************************************************)
(* A request through the application, statement by statement: the body      *)
(* parser, the route table, the handler up to its await, the handler from   *)
(* its await on, the catch-all and the error handler.  flow.sent lists      *)
(* every response sent for the request.                                     *)
(***************************************************************************)
\* Rows inserted in a run taken statement by statement.
FlowRows == 1

\* The properties a handler reads from req.body.
Fields ==
  {"description", "amount", "category", "date", "source", "name", "quantity",
   "cost_price", "selling_price", "supplier", "username", "password"}

\* req.body after express.json(): a property the sender left out reads as
\* undefined.
Json(b) == [f \in Fields |-> IF f \in DOMAIN b THEN b[f] ELSE Undefined]

\* A body that is no JSON text.
Malformed == [k |-> "malformed"]

FlowBodies ==
  {Json(<<>>), Json(ExpenseRent), Json(EarningSale), Json(ItemWidget),
   Json([username |-> Str(<<"a">>), password |-> Str(<<"x">>)]),
   Json([username |-> Str(<<"a">>), password |-> Str(<<"y">>)]),
   Malformed}

FlowMethods == {"GET", "POST", "PUT", "DELETE"}

\* URLs: "/" (path ""), "/api/<path>" and "/api/<path>/<id>"; path "login" is
\* "/api/auth/login" and "other" is a path no route names.
FlowPaths == Resources \cup {"", "summary", "login", "other"}

FlowPathIds == {NoId, Str(<<"1">>), Str(<<"x">>)}

\* RouteOf with the method left out of the match of the collection URLs.
RouteOfAnyMethod(method, path, id) ==
  CASE path \in Resources /\ id = NoId /\ method = "POST" -> "create"
    [] path \in Resources /\ id = NoId -> "list"
    [] path \in Resources /\ id # NoId /\ method = "PUT" -> "update"
    [] path \in Resources /\ id # NoId /\ method = "DELETE" -> "delete"
    [] path = "summary" /\ id = NoId /\ method = "GET" -> "summary"
    [] path = "login" /\ id = NoId /\ method = "POST" -> "login"
    [] path = "" /\ id = NoId /\ method = "GET" -> "root"
    [] OTHER -> "none"

\* The route table: the handler of the first route that the method and the
\* URL match, "none" when there is none.
RouteOf(method, path, id) ==
  CASE path \in Resources /\ id = NoId /\ method = "GET" -> "list"
    [] path \in Resources /\ id = NoId /\ method = "POST" -> "create"
    [] path \in Resources /\ id # NoId /\ method = "PUT" -> "update"
    [] path \in Resources /\ id # NoId /\ method = "DELETE" -> "delete"
    [] path = "summary" /\ id = NoId /\ method = "GET" -> "summary"
    [] path = "login" /\ id = NoId /\ method = "POST" -> "login"
    [] path = "" /\ id = NoId /\ method = "GET" -> "root"
    [] OTHER -> "none"

\* The texts of the handlers of a resource.
Texts(t) ==
  CASE t = "expenses" ->
         [fetch |-> "Failed to fetch expenses",
          missing |-> "Missing required fields for expense",
          add |-> "Failed to add expense",
          missingUpdate |-> "Missing required fields for expense update",
          update |-> "Failed to update expense",
          notFound |-> "Expense not found",
          deleted |-> "Expense deleted successfully",
          delete |-> "Failed to delete expense"]
    [] t = "earnings" ->
         [fetch |-> "Failed to fetch earnings",
          missing |-> "Missing required fields for earning",
          add |-> "Failed to add earning",
          missingUpdate |-> "Missing required fields for earning update",
          update |-> "Failed to update earning",
          notFound |-> "Earning not found",
          deleted |-> "Earning deleted successfully",
          delete |-> "Failed to delete earning"]
    [] t = "inventory" ->
         [fetch |-> "Failed to fetch inventory items",
          missing |-> "Missing required fields for inventory item",
          add |-> "Failed to add inventory item",
          missingUpdate |-> "Missing required fields for inventory item update",
          update |-> "Failed to update inventory item",
          notFound |-> "Inventory item not found",
          deleted |-> "Inventory item deleted successfully",
          delete |-> "Failed to delete inventory item"]

\* The required-field check of the create and update handlers of table t.
Missing(t, body) ==
  CASE t = "expenses" -> ExpenseMissing(body)
    [] t = "earnings" -> EarningMissing(body)
    [] t = "inventory" -> InventoryMissing(body)

\* The INSERT of the create handler of table t.
Insert(t, body) ==
  CASE t = "expenses" ->
         InsertExpense(db.expenses, body.description, parseFloat(body.amount),
                       body.category, body.date)
    [] t = "earnings" ->
         InsertEarning(db.earnings, body.description, parseFloat(body.amount),
                       body.source, body.date)
    [] t = "inventory" ->
         InsertInventory(db.inventory, body.name, parseInt(body.quantity),
                         parseFloat(body.cost_price),
                         parseFloat(body.selling_price), body.supplier)

\* The UPDATE of the update handler of table t.
Update(t, id, body) ==
  CASE t = "expenses" ->
         UpdateExpense(db.expenses, body.description, parseFloat(body.amount),
                       body.category, body.date, parseInt(id))
    [] t = "earnings" ->
         UpdateEarning(db.earnings, body.description, parseFloat(body.amount),
                       body.source, body.date, parseInt(id))
    [] t = "inventory" ->
         UpdateInventory(db.inventory, body.name, parseInt(body.quantity),
                         parseFloat(body.cost_price),
                         parseFloat(body.selling_price), body.supplier,
                         parseInt(id))

\* The rows of table t in the order of its list.
Listed(t) ==
  Ordered(db[t], IF t = "inventory" THEN NameAsc(db[t]) ELSE DateDesc(db[t]))

\* Row r of table t as result.rows holds it.
Rendered(t, r) ==
  CASE t = "expenses" -> ExpenseRow(r)
    [] t = "earnings" -> EarningRow(r)
    [] t = "inventory" -> InventoryRow(r)

\* `sendResponse(...)` without `return` in front: the handler runs on.
ReturnsNot == FALSE

\* `return sendResponse(...)`: the handler ends with the response.
Returns == TRUE

\* One more response goes out for the request in hand.
Send(response, pc) ==
  /\ res' = response
  /\ flow' = [flow EXCEPT !.sent = Append(@, response), !.pc = pc]

\* The request arrives and passes express.json() and the route table.  A body
\* that does not parse goes to the error handler, a request that no route
\* matches to the catch-all, GET / is answered at once, and any other
\* request enters its handler.
Arrive(method, path, id, body) ==
  /\ flow.pc = "idle"
  /\ req.method = "NONE"
  /\ RouteOf(method, path, id) = "create" => Inserted < FlowRows
  /\ req' = [method |-> method, path |-> path, id |-> id, body |-> body]
  /\ before' = db
  /\ query' = "none"
  /\ LET route == RouteOf(method, path, id)
         answer(name, response) ==
           /\ res' = response
           /\ flow' = [pc |-> "done", route |-> name, sent |-> <<response>>]
     IN IF body = Malformed
        THEN answer("error", sendResponse(500, "An unexpected error occurred"))
        ELSE IF route = "none"
        THEN answer("none", sendResponse(404, "Resource not found"))
        ELSE IF route = "root"
        THEN answer("root", [status |-> 200,
                             body |-> "Business Dashboard API is running!"])
        ELSE /\ res' = NoResponse
             /\ flow' = [pc |-> "enter", route |-> route, sent |-> <<>>]
  /\ UNCHANGED <<db, nextId, issued, removed, calls, env, logins, browser>>

\* The handler from its first line to its first await: the required-field
\* check of create and update, and the whole of the login handler, which
\* awaits nothing.
Enter ==
  /\ flow.pc = "enter"
  /\ LET t == req.path
         body == req.body
         appUser == env.BASIC_AUTH_USER
         appPassword == env.BASIC_AUTH_PASSWORD
         after == IF Returns THEN "done" ELSE "await"
         verdict ==
           IF Matches(body.username, body.password, appUser, appPassword)
           THEN sendResponse(200, [message |-> "Login successful",
                                   user |-> [username |-> body.username]])
           ELSE sendResponse(401, "Invalid username or password")
         refusal == sendResponse(500, "Authentication not configured on server.")
     IN CASE flow.route = "create" /\ Missing(t, body) ->
               Send(sendResponse(400, Texts(t).missing), after)
          [] flow.route = "update" /\ Missing(t, body) ->
               Send(sendResponse(400, Texts(t).missingUpdate), after)
          [] flow.route = "login" /\ NotConfigured(appUser, appPassword) ->
               IF Returns
               THEN Send(refusal, "done")
               ELSE /\ res' = verdict
                    /\ flow' = [flow EXCEPT !.sent = @ \o <<refusal, verdict>>,
                                            !.pc = "done"]
          [] flow.route = "login" /\ ~NotConfigured(appUser, appPassword) ->
               Send(verdict, "done")
          [] OTHER ->
               /\ flow' = [flow EXCEPT !.pc = "await"]
               /\ UNCHANGED res
  /\ UNCHANGED <<db, nextId, req, query, before, issued, removed, calls, env, logins, browser>>

\* The handler from its await on: the database has taken the statement, or
\* was out of reach and the catch block answers.
Resume(up) ==
  /\ flow.pc = "await"
  /\ query' = Served(up)
  /\ LET t == req.path
         route == flow.route
         result ==
           CASE route = "create" -> Query(up, Insert(t, req.body))
             [] route = "update" -> Query(up, Update(t, req.id, req.body))
             [] route = "delete" -> Query(up, DeleteRow(db[t], parseInt(req.id)))
             [] OTHER -> Query(up, [threw |-> FALSE])
         failure ==
           CASE route = "list" -> Texts(t).fetch
             [] route = "create" -> Texts(t).add
             [] route = "update" -> Texts(t).update
             [] route = "delete" -> Texts(t).delete
             [] route = "summary" -> "Failed to fetch summary data"
         success(row) ==
           CASE route = "create" -> sendResponse(201, row)
             [] route = "update" -> sendResponse(200, row)
             [] route = "delete" -> sendResponse(200, [message |-> Texts(t).deleted])
     IN IF result.threw
        THEN /\ Send(sendResponse(500, failure), "done")
             /\ UNCHANGED <<db, nextId, issued, removed>>
        ELSE IF route = "list"
        THEN /\ \E q \in Listed(t) :
                  Send(sendResponse(200, [i \in DOMAIN q |-> Rendered(t, q[i])]),
                       "done")
             /\ UNCHANGED <<db, nextId, issued, removed>>
        ELSE IF route = "summary"
        THEN /\ \E me \in Monthly(db.expenses), mr \in Monthly(db.earnings) :
                  Send(sendResponse(200,
                         SummaryOf(TotalAmount(db.expenses),
                                   TotalAmount(db.earnings),
                                   TotalInventoryValue(db.inventory), me, mr)),
                       "done")
             /\ UNCHANGED <<db, nextId, issued, removed>>
        ELSE IF route \in {"update", "delete"} /\ Cardinality(result.rows) = 0
        THEN /\ IF Returns
                THEN Send(sendResponse(404, Texts(t).notFound), "done")
                ELSE /\ res' = success(Undefined)
                     /\ flow' = [flow EXCEPT
                                   !.sent = @ \o <<sendResponse(404, Texts(t).notFound),
                                                   success(Undefined)>>,
                                   !.pc = "done"]
             /\ UNCHANGED <<db, nextId, issued, removed>>
        ELSE /\ Send(success(Rendered(t, First(result.rows))), "done")
             /\ db' = [db EXCEPT ![t] = result.table]
             /\ nextId' = [nextId EXCEPT ![t] = IF route = "create" THEN @ + 1 ELSE @]
             /\ issued' = [issued EXCEPT
                             ![t] = IF route = "create"
                                    THEN Append(@, First(result.rows).id) ELSE @]
             /\ removed' = [removed EXCEPT
                              ![t] = IF route = "delete"
                                     THEN @ \cup {r.id : r \in result.rows} ELSE @]
  /\ UNCHANGED <<req, before, calls, env, logins, browser>>

\* The handler has ended: the exchange is over.
FlowClose ==
  /\ flow.pc = "done"
  /\ req' = NoRequest
  /\ res' = NoResponse
  /\ query' = "none"
  /\ before' = db
  /\ flow' = NoFlow
  /\ UNCHANGED <<db, nextId, issued, removed, calls, env, logins, browser>>

NextFlow ==
  \/ \E method \in FlowMethods, path \in FlowPaths, id \in FlowPathIds, body \in FlowBodies :
       Arrive(method, path, id, body)
  \/ Enter
  \/ \E up \in BOOLEAN : Resume(up)
  \/ FlowClose

SpecFlow == InitAuth /\ [][NextFlow]_vars

\* A handler that has been entered runs on: Node runs it to its await, and
\* the promise of pool.query settles, resolved or rejected.
SpecFlowLive ==
  SpecFlow /\ WF_vars(Enter) /\ WF_vars(\E up \in BOOLEAN : Resume(up))

(***************************************************************************)
(* The browser client (frontend/src/App.jsx): the AuthProvider, the         *)
(* LoginPage, the DashboardPage and the CrudPage of the expenses.  A        *)
(* request of the client is under way from the call of axios until its      *)
(* promise settles; the server takes the requests under way one at a time,  *)
(* in any order, and the responses come back in any order.                  *)
(***************************************************************************)
\* JSON.stringify(v) and JSON.parse(text); localStorage.getItem gives null
\* where there is no entry.
JSONstringify(v) == [k |-> "json", of |-> v]

JSONparse(text) == IF text = Null THEN Null ELSE text.of

\* The entry 'dashboardUser' that earlier visits may have left.
Entries == {Null, JSONstringify([username |-> Str(<<"a">>)])}

\* What is typed into the login form.
Usernames == {Str(<<>>), Str(<<"a">>)}
Passwords == {Str(<<>>), Str(<<"x">>), Str(<<"y">>)}

\* The routes of the application that are modelled.
Views == {"login", "dashboard", "expenses"}

\* A request as sent: live says that the component that sent it is still
\* mounted, loaded that the page has not been loaded anew since.
Request(op, id, body) ==
  [op |-> op, id |-> id, body |-> body, live |-> TRUE, loaded |-> TRUE,
   stage |-> "sent", reply |-> NoResponse]

\* The requests that the effects of a component send when it is mounted.
Effects(view) ==
  CASE view = "dashboard" -> <<Request("summary", NoId, NoBody)>>
    [] view = "expenses" -> <<Request("list", NoId, NoBody)>>
    [] OTHER -> <<>>

\* The components' state with the page of view mounted in place of the one
\* that is: useState's initial values.
Mounted(view, u) ==
  [u EXCEPT
     !.view = view,
     !.loading = FALSE,
     !.dash = IF view = "dashboard" THEN [NoDash EXCEPT !.loading = TRUE]
              ELSE NoDash,
     !.crud = IF view = "expenses" THEN [NoCrud EXCEPT !.isLoading = TRUE]
              ELSE NoCrud]

\* The requests under way once their senders are unmounted.
Orphaned(flight) == [i \in DOMAIN flight |-> [flight[i] EXCEPT !.live = FALSE]]

\* The requests under way once the page is left for a new load of it.
Abandoned(flight) ==
  [i \in DOMAIN flight |-> [flight[i] EXCEPT !.live = FALSE, !.loaded = FALSE]]

\* q without its k-th element.
Without(q, k) ==
  [i \in 1..(Len(q) - 1) |-> IF i < k THEN q[i] ELSE q[i + 1]]

\* The router shows the page of view: the page that was is unmounted, the
\* new one mounted, and its effects run.
Navigate(view, u, n) ==
  /\ ui' = Mounted(view, u)
  /\ net' = [n EXCEPT !.flight = Orphaned(@) \o Effects(view),
                      !.left = @ - Len(Effects(view))]

\* The server's variables.
server ==
  <<db, nextId, req, res, query, before, issued, removed, calls, env, logins, flow>>

\* The user opens the application, at /login.
Open(entry) ==
  /\ ui.view = "none"
  /\ storage' = entry
  /\ ui' = [NoUi EXCEPT !.view = "login", !.user = JSONparse(entry)]
  /\ UNCHANGED <<net, server>>

\* The user follows a link to another page.
Visit(view) ==
  /\ ui.view \notin {"none", view}
  /\ net.left >= Len(Effects(view))
  /\ Navigate(view, ui, net)
  /\ UNCHANGED <<storage, server>>

\* The user loads the page anew: every component starts over, the user
\* read from localStorage.
Reload ==
  /\ ui.view # "none"
  /\ net.left >= Len(Effects(ui.view))
  /\ ui' = Mounted(ui.view, [NoUi EXCEPT !.user = JSONparse(storage)])
  /\ net' = [net EXCEPT !.flight = Abandoned(@) \o Effects(ui.view),
                        !.left = @ - Len(Effects(ui.view))]
  /\ UNCHANGED <<storage, server>>

\* LoginPage.handleSubmit up to its await, with AuthProvider.login up to
\* its own.  A request is kept in reserve for the page that a successful
\* login navigates to.
LoginSubmit(username, password) ==
  /\ ui.view = "login"
  /\ IF ~Truthy(username) \/ ~Truthy(password)
     THEN UNCHANGED <<ui, net>>
     ELSE /\ net.left >= 2
          /\ ui' = [ui EXCEPT !.loading = TRUE]
          /\ net' = [net EXCEPT
                       !.flight = Append(@, Request("login", NoId,
                                    [username |-> username, password |-> password])),
                       !.left = @ - 2]
  /\ UNCHANGED <<storage, server>>

\* Logout with the entry of localStorage left in place.
LogoutKeepsEntry ==
  /\ ui.view \in {"dashboard", "expenses"}
  /\ ui.user # Null
  /\ Navigate("login", [ui EXCEPT !.user = Null], net)
  /\ UNCHANGED <<storage, server>>

\* AuthProvider.logout and Sidebar.handleLogout; the button is shown to a
\* logged-in user on the pages with the sidebar.
Logout ==
  /\ ui.view \in {"dashboard", "expenses"}
  /\ ui.user # Null
  /\ storage' = Null
  /\ Navigate("login", [ui EXCEPT !.user = Null], net)
  /\ UNCHANGED server

\* The request that axios sent for req, the request the server has in hand.
Carries(m, r) ==
  /\ m.stage = "sent"
  /\ m.id = r.id
  /\ m.body = r.body
  /\ <<r.method, r.path>> =
       CASE m.op = "login" -> <<"POST", "login">>
         [] m.op = "summary" -> <<"GET", "summary">>
         [] m.op = "list" -> <<"GET", "expenses">>
         [] m.op = "create" -> <<"POST", "expenses">>
         [] m.op = "update" -> <<"PUT", "expenses">>
         [] m.op = "delete" -> <<"DELETE", "expenses">>

\* The server takes a request of the client that is under way.
Serve ==
  /\ \E k \in DOMAIN net.flight :
       LET m == net.flight[k]
       IN /\ m.stage = "sent"
          /\ CASE m.op = "login" -> Login(m.body)
               [] m.op = "summary" -> \E up \in BOOLEAN : GetSummary(up)
               [] m.op = "list" -> \E up \in BOOLEAN : GetExpenses(up)
               [] m.op = "create" -> \E up \in BOOLEAN : PostExpense(m.body, up)
               [] m.op = "update" -> \E up \in BOOLEAN : PutExpense(m.id, m.body, up)
               [] m.op = "delete" -> \E up \in BOOLEAN : DeleteExpense(m.id, up)

\* The response goes out to the client, and the exchange is over.
Respond(k) ==
  /\ req.method # "NONE"
  /\ Carries(net.flight[k], req)
  /\ net' = [net EXCEPT !.flight[k].stage = "served", !.flight[k].reply = res]
  /\ req' = NoRequest
  /\ res' = NoResponse
  /\ query' = "none"
  /\ before' = db
  /\ UNCHANGED <<db, nextId, issued, removed, calls, env, logins, flow, ui, storage>>

\* axios resolves on a status 2xx and rejects on any other.
Resolved(m) == m.reply.status \in 200..299

\* The promise of request k has settled and the code behind its await can
\* run.
Settled(k, op) ==
  /\ k \in DOMAIN net.flight
  /\ net.flight[k].stage = "served"
  /\ net.flight[k].op = op

\* AuthProvider.login from its await on, then LoginPage.handleSubmit from
\* its await on.  The page's own state is set only while the page is
\* mounted; navigate() works all the same.
LoginDone(k) ==
  /\ Settled(k, "login")
  /\ LET m == net.flight[k]
         success == Resolved(m) /\ "user" \in DOMAIN m.reply.body
         rest == [net EXCEPT !.flight = Without(@, k)]
         u == [ui EXCEPT
                 !.user = IF success THEN m.reply.body.user ELSE @,
                 !.loading = IF m.live THEN FALSE ELSE @]
     IN IF ~m.loaded
        THEN /\ net' = [rest EXCEPT !.left = @ + 1]
             /\ UNCHANGED <<ui, storage>>
        ELSE /\ storage' = IF success THEN JSONstringify(m.reply.body.user)
                           ELSE storage
             /\ IF success /\ ui.view # "dashboard"
                THEN Navigate("dashboard", u, [rest EXCEPT !.left = @ + 1])
                ELSE /\ ui' = u
                     /\ net' = [rest EXCEPT !.left = @ + 1]
  /\ UNCHANGED server

\* The months of a monthly series.
MonthsOf(rows) == {rows[i].month : i \in DOMAIN rows}

\* Array.from(set).sort(): the strings of the set in ascending order of
\* their UTF-16 code units.
Sorted(S) ==
  CHOOSE q \in [1..Cardinality(S) -> S] :
    \A i, j \in 1..Cardinality(S) : i < j => TextLess(q[i].s, q[j].s)

\* rows.find(e => e.month === month)?.total
TotalOfMonth(rows, month) ==
  IF \E i \in DOMAIN rows : rows[i].month = month
  THEN rows[CHOOSE i \in DOMAIN rows :
              /\ rows[i].month = month
              /\ \A j \in 1..(i - 1) : rows[j].month # month].total
  ELSE Undefined

\* allMonths with the months of the earnings left out.
AllMonthsOfExpenses(summary) == MonthsOf(summary.monthlyExpenses)

\* allMonths
AllMonths(summary) ==
  MonthsOf(summary.monthlyExpenses) \cup MonthsOf(summary.monthlyEarnings)

\* chartData: the labels and the data of the two datasets.
ChartData(summary) ==
  LET sortedMonths == Sorted(AllMonths(summary))
  IN [labels |-> sortedMonths,
      Expenses |-> [i \in DOMAIN sortedMonths |->
                      OrZero(TotalOfMonth(summary.monthlyExpenses, sortedMonths[i]))],
      Earnings |-> [i \in DOMAIN sortedMonths |->
                      OrZero(TotalOfMonth(summary.monthlyEarnings, sortedMonths[i]))]]

\* DashboardPage.fetchSummary from its await on, and the render that
\* follows.
SummaryDone(k) ==
  /\ Settled(k, "summary")
  /\ LET m == net.flight[k]
     IN /\ net' = [net EXCEPT !.flight = Without(@, k)]
        /\ ui' = [ui EXCEPT
                    !.dash = IF ~m.live THEN @
                             ELSE IF Resolved(m)
                             THEN [loading |-> FALSE, summary |-> m.reply.body,
                                   chartData |-> ChartData(m.reply.body)]
                             ELSE [@ EXCEPT !.loading = FALSE]]
  /\ UNCHANGED <<storage, server>>

\* formFields of the ExpensesPage.
FormFields ==
  <<[name |-> "description", label |-> "Description", type |-> "text", required |-> TRUE],
    [name |-> "amount", label |-> "Amount", type |-> "number", required |-> TRUE],
    [name |-> "category", label |-> "Category", type |-> "text", required |-> TRUE],
    [name |-> "date", label |-> "Date", type |-> "date", required |-> TRUE]>>

\* new Date().toISOString().split('T')[0]: the day of the run.
Today == Jan15

\* resetFormData: '' for every field, today for a date.
ResetFormData ==
  [NoForm EXCEPT !.description = Str(<<>>), !.amount = Str(<<>>),
                 !.category = Str(<<>>), !.date = Str(Today)]

\* What the user types into the fields of the form: the value of the input
\* element, which for an input of type number is '' or the text of a number.
Typed ==
  [description |-> {Str(<<"a">>)},
   amount |-> {Str(<<"0">>), Str(<<"5", "0">>), Str(<<>>)},
   category |-> {Str(<<"c">>)}]

\* The type of the form field of the given name.
TypeOf(name) ==
  FormFields[CHOOSE i \in DOMAIN FormFields : FormFields[i].name = name].type

\* new Date(text).toISOString().split('T')[0] for a text that SANE_DATE_RE
\* matches, the text itself otherwise.
FormattedDate(v) ==
  IF Truthy(v) /\ v.k = "string" /\ IsDateText(v.s) THEN Str(SubSeq(v.s, 1, 10))
  ELSE v

\* String(v).trim() === ''
Blank(v) == v.k = "string" /\ \A i \in DOMAIN v.s : v.s[i] = " "

\* The loop of handleSubmit over formFields from field i on: whether it
\* runs to its end, and dataToSubmit.
RECURSIVE Validated(_, _)
Validated(data, i) ==
  IF i > Len(FormFields) THEN [ok |-> TRUE, data |-> data]
  ELSE LET f == FormFields[i]
           v == data[f.name]
           empty == f.type = "number" /\ (v = Str(<<>>) \/ v = Undefined)
           w == IF f.type # "number" THEN v
                ELSE IF empty THEN Null
                ELSE parseFloat(v)
           d == [data EXCEPT ![f.name] = w]
       IN IF empty /\ f.required
          THEN [ok |-> FALSE, data |-> data]
          ELSE IF f.type = "number" /\ ~empty /\ w = NaN
          THEN [ok |-> FALSE, data |-> d]
          ELSE IF f.required /\ (w = Undefined \/ w = Null \/ Blank(w))
          THEN [ok |-> FALSE, data |-> d]
          ELSE Validated(d, i + 1)

\* The rows of the table the page shows: none while it shows "Loading".
Displayed ==
  IF ui.crud.isLoading THEN {}
  ELSE {ui.crud.items[i] : i \in DOMAIN ui.crud.items}

\* The page is the CrudPage, with its form closed or open.
OnPage(open) == ui.view = "expenses" /\ ui.crud.isModalOpen = open

\* openModal(itemToEdit): the Add New button, or the Edit button of a row.
OpenModal(itemToEdit) ==
  /\ OnPage(FALSE)
  /\ itemToEdit # Null => itemToEdit \in Displayed
  /\ LET formattedItem ==
           [itemToEdit EXCEPT !.date = FormattedDate(itemToEdit.date)]
     IN ui' = [ui EXCEPT
                 !.crud.isModalOpen = TRUE,
                 !.crud.currentItem =
                   IF itemToEdit = Null THEN Null ELSE formattedItem,
                 !.crud.formData =
                   IF itemToEdit = Null THEN ResetFormData ELSE formattedItem]
  /\ UNCHANGED <<net, storage, server>>

\* closeModal: Cancel, or the cross of the modal.
CloseModal ==
  /\ OnPage(TRUE)
  /\ ui' = [ui EXCEPT !.crud.isModalOpen = FALSE,
                      !.crud.currentItem = Null,
                      !.crud.formData = ResetFormData]
  /\ UNCHANGED <<net, storage, server>>

\* handleInputChange
InputChange(name, value) ==
  /\ OnPage(TRUE)
  /\ LET val == IF TypeOf(name) = "number"
                THEN (IF value = Str(<<>>) THEN Str(<<>>) ELSE parseFloat(value))
                ELSE value
     IN ui' = [ui EXCEPT !.crud.formData[name] = val]
  /\ UNCHANGED <<net, storage, server>>

\* The path parameter `${currentItem.id}`.
PathOf(id) == Str(NatText(id))

\* handleSubmit sending a POST whatever the form was opened for.
SubmitAsNew ==
  /\ OnPage(TRUE)
  /\ LET checked == Validated(ui.crud.formData, 1)
     IN IF ~checked.ok
        THEN UNCHANGED <<ui, net>>
        ELSE /\ net.left >= 2
             /\ net' = [net EXCEPT
                          !.flight = Append(@, Request("create", NoId, checked.data)),
                          !.left = @ - 2]
             /\ UNCHANGED ui
  /\ UNCHANGED <<storage, server>>

\* handleSubmit up to its await.  A request is kept in reserve for the
\* fetchItems that follows a success.
Submit ==
  /\ OnPage(TRUE)
  /\ LET checked == Validated(ui.crud.formData, 1)
         currentItem == ui.crud.currentItem
     IN IF ~checked.ok
        THEN UNCHANGED <<ui, net>>
        ELSE /\ net.left >= 2
             /\ net' = [net EXCEPT
                          !.flight =
                            Append(@, IF currentItem # Null
                                      THEN Request("update", PathOf(currentItem.id),
                                                   checked.data)
                                      ELSE Request("create", NoId, checked.data)),
                          !.left = @ - 2]
             /\ UNCHANGED ui
  /\ UNCHANGED <<storage, server>>

\* handleSubmit from its await on: on success fetchItems() up to its await
\* and closeModal(), on failure the toast.  The request of fetchItems goes
\* out whether or not the page is still mounted.
SubmitDone(k) ==
  /\ Settled(k, "create") \/ Settled(k, "update")
  /\ LET m == net.flight[k]
         rest == [net EXCEPT !.flight = Without(@, k)]
     IN IF ~m.loaded
        THEN /\ net' = [rest EXCEPT !.left = @ + 1]
             /\ UNCHANGED ui
        ELSE IF Resolved(m)
        THEN /\ net' = [rest EXCEPT
                          !.flight = Append(@, [Request("list", NoId, NoBody)
                                                  EXCEPT !.live = m.live])]
             /\ ui' = [ui EXCEPT
                         !.crud = IF ~m.live THEN @
                                  ELSE [@ EXCEPT !.isLoading = TRUE,
                                                 !.isModalOpen = FALSE,
                                                 !.currentItem = Null,
                                                 !.formData = ResetFormData]]
        ELSE /\ net' = [rest EXCEPT !.left = @ + 1]
             /\ UNCHANGED ui
  /\ UNCHANGED <<storage, server>>

\* fetchItems with setIsLoading(false) at the end of its try block instead
\* of in a finally block.
ListDoneOnSuccess(k) ==
  /\ Settled(k, "list")
  /\ LET m == net.flight[k]
     IN /\ net' = [net EXCEPT !.flight = Without(@, k)]
        /\ IF ~m.loaded THEN UNCHANGED ui
           ELSE ui' = [ui EXCEPT
                         !.crud = IF ~m.live \/ ~Resolved(m) THEN @
                                  ELSE [@ EXCEPT !.items = m.reply.body,
                                                 !.isLoading = FALSE]]
  /\ UNCHANGED <<storage, server>>

\* fetchItems from its await on.
ListDone(k) ==
  /\ Settled(k, "list")
  /\ LET m == net.flight[k]
     IN /\ net' = [net EXCEPT !.flight = Without(@, k)]
        /\ IF ~m.loaded THEN UNCHANGED ui
           ELSE ui' = [ui EXCEPT
                         !.crud = IF ~m.live THEN @
                                  ELSE [@ EXCEPT
                                          !.items = IF Resolved(m) THEN m.reply.body
                                                    ELSE @,
                                          !.isLoading = FALSE]]
  /\ UNCHANGED <<storage, server>>

\* handleDelete(id) up to its await: the Delete button of a row, and the
\* answer to window.confirm.
Delete(id, confirmed) ==
  /\ OnPage(FALSE)
  /\ \E item \in Displayed : item.id = id
  /\ IF confirmed
     THEN /\ net.left >= 1
          /\ net' = [net EXCEPT
                       !.flight = Append(@, Request("delete", PathOf(id), NoBody)),
                       !.left = @ - 1]
     ELSE UNCHANGED net
  /\ UNCHANGED <<ui, storage, server>>

\* The text of the id that a path parameter holds.
RECURSIVE TextValue(_)
TextValue(s) ==
  IF s = <<>> THEN 0 ELSE 10 * TextValue(SubSeq(s, 1, Len(s) - 1)) + DigitVal(s[Len(s)])

\* prevItems.filter(item => item.id !== id)
Filtered(items, id) == SelectSeq(items, LAMBDA item : item.id # id)

\* handleDelete from its await on.
DeleteDone(k) ==
  /\ Settled(k, "delete")
  /\ LET m == net.flight[k]
         id == TextValue(m.id.s)
         rest == [net EXCEPT !.flight = Without(@, k)]
     IN IF ~m.loaded
        THEN net' = rest /\ UNCHANGED ui
        ELSE IF Resolved(m)
        THEN /\ net' = [rest EXCEPT !.deleted = @ \cup {id}]
             /\ ui' = [ui EXCEPT
                         !.crud.items = IF m.live THEN Filtered(@, id) ELSE @]
        ELSE net' = rest /\ UNCHANGED ui
  /\ UNCHANGED <<storage, server>>

\* The session: the login, the logout, and the pages' fetches on the way.
NextSession ==
  \/ \E entry \in Entries : Open(entry)
  \/ \E view \in Views : Visit(view)
  \/ Reload
  \/ \E username \in Usernames, password \in Passwords : LoginSubmit(username, password)
  \/ Logout
  \/ Serve
  \/ \E k \in DOMAIN net.flight : Respond(k)
  \/ \E k \in DOMAIN net.flight : LoginDone(k)
  \/ \E k \in DOMAIN net.flight : SummaryDone(k)
  \/ \E k \in DOMAIN net.flight : ListDone(k)

SpecSession == Init /\ [][NextSession]_vars

\* No request of the client is under way.
Idle == net.flight = <<>>

\* Expenses another client has added before the application is opened.
CrudRows == 1

\* The CrudPage of the expenses, with the expenses that another client
\* recorded before.
NextCrud ==
  \/ Open(Null)
  \/ Visit("expenses")
  \/ ui.view = "none" /\ Inserted < CrudRows /\ PostExpense(ExpenseFee, TRUE)
  \/ req.body = ExpenseFee /\ Close
  \/ Serve
  \/ \E k \in DOMAIN net.flight : Respond(k)
  \/ \E itemToEdit \in Displayed \cup {Null} : OpenModal(itemToEdit)
  \/ CloseModal
  \/ \E name \in DOMAIN Typed : \E value \in Typed[name] : InputChange(name, value)
  \/ Submit
  \/ \E k \in DOMAIN net.flight : SubmitDone(k)
  \/ \E k \in DOMAIN net.flight : ListDone(k)
  \/ \E id \in {item.id : item \in Displayed}, confirmed \in BOOLEAN : Delete(id, confirmed)
  \/ \E k \in DOMAIN net.flight : DeleteDone(k)

SpecCrud == Init /\ [][NextCrud]_vars

\* Records another client adds while the dashboard is in use.
DashRows == 2

\* The DashboardPage, with the expenses and earnings that other clients
\* record between its fetches.
NextDash ==
  \/ Open(Null)
  \/ Visit("dashboard")
  \/ Reload
  \/ \E b \in {ExpenseRent, ExpenseFee} : Idle /\ Inserted < DashRows /\ PostExpense(b, TRUE)
  \/ \E b \in {EarningSale, EarningFee} : Idle /\ Inserted < DashRows /\ PostEarning(b, TRUE)
  \/ req.method = "POST" /\ Close
  \/ Serve
  \/ \E k \in DOMAIN net.flight : Respond(k)
  \/ \E k \in DOMAIN net.flight : SummaryDone(k)

SpecDash == Init /\ [][NextDash]_vars

(***************************************************************************)
(* The contract's terms, as the specification states them                   *)
(***************************************************************************)
\* The path id is the decimal text of the id of row r.
Names(id, r) == id.k = "string" /\ id.s = NatText(r.id)

\* The rows of table t, as the handler found it, that the path id names.
Target(t) == {r \in before[t] : Names(req.id, r)}

Writes == {"POST", "PUT"}

RequiredFields(t) ==
  IF t = "expenses" THEN {"description", "amount", "category", "date"}
  ELSE IF t = "earnings" THEN {"description", "amount", "source", "date"}
  ELSE {"name", "quantity", "cost_price", "selling_price"}

NumericFields(t) ==
  IF t = "inventory" THEN {"quantity", "cost_price", "selling_price"}
  ELSE {"amount"}

TextFields(t) ==
  IF t = "expenses" THEN {"description", "category"}
  ELSE IF t = "earnings" THEN {"description", "source"}
  ELSE {"name"}

\* The whole text is an unsigned decimal numeral.
IsDecimalText(s) ==
  /\ \E i \in 1..Len(s) : IsDigit(s[i])
  /\ \A i \in 1..Len(s) : IsDigit(s[i]) \/ s[i] = "."
  /\ Cardinality({i \in 1..Len(s) : s[i] = "."}) <= 1

\* The value parses to a number.
ParsesToNumber(v) == IsNum(v) \/ (IsStr(v) /\ IsDecimalText(v.s))

\* The number a value that parses to a number stands for.
NumberOf(v) == IF IsNum(v) THEN v ELSE StringToFloat(v.s)

\* A record that is valid for resource t: required text non-empty, numeric
\* fields numbers that are zero or more (quantity whole), a calendar date,
\* supplier a text or absent.
ValidBody(t, b) ==
  /\ \A f \in TextFields(t) : IsStr(b[f]) /\ Len(b[f].s) > 0
  /\ \A f \in NumericFields(t) : ParsesToNumber(b[f]) /\ NumberOf(b[f]).n >= 0
  /\ t = "inventory" =>
       /\ NumberOf(b.quantity).n % 100 = 0
       /\ b.supplier.k \in {"undefined", "null", "string"}
  /\ t # "inventory" => IsDateParam(b.date)

\* The stored row r of table t holds exactly the submitted fields of b.
Reflects(t, r, b) ==
  /\ \A f \in TextFields(t) : r[f] = b[f].s
  /\ \A f \in NumericFields(t) : r[f] = NumberOf(b[f])
  /\ t = "inventory" =>
       r.supplier = (IF b.supplier.k = "string" THEN b.supplier ELSE Null)
  /\ t # "inventory" => r.date = b.date.s

\* The sum of the numbers v of the pairs of P; no number when one is NaN.
RECURSIVE SigmaInt(_)
SigmaInt(P) ==
  IF P = {} THEN 0
  ELSE LET p == CHOOSE x \in P : TRUE IN p.v.n + SigmaInt(P \ {p})

Sigma(P) == IF \E p \in P : p.v = NaN THEN NaN ELSE Num(SigmaInt(P))

IsSummary == req.method = "GET" /\ req.path = "summary" /\ res.status = 200

IsList(t) == req.method = "GET" /\ req.path = t /\ res.status = 200

(***************************************************************************)
(* Claims                                                                   *)
(***************************************************************************)
\* C1: for every resource type the ids returned by create are pairwise
\* different, deleted ones included; a 201 response carries the id just
\* issued, which no row of the table had; and every list() answered while
\* the id has not been deleted holds a record with that id.
C1_CreatedIdFreshAndListed ==
  \A t \in Resources :
    /\ \A i, j \in 1..Len(issued[t]) : i # j => issued[t][i] # issued[t][j]
    /\ (req.method = "POST" /\ req.path = t /\ res.status = 201) =>
         /\ Len(issued[t]) > 0
         /\ res.body.id = issued[t][Len(issued[t])]
         /\ res.body.id \notin {r.id : r \in before[t]}
         /\ \E r \in db[t] : r.id = res.body.id
    /\ IsList(t) =>
         \A i \in 1..Len(issued[t]) :
           issued[t][i] \notin removed[t] =>
             \E k \in DOMAIN res.body : res.body[k].id = issued[t][i]

\* C1 witness: a list of expenses answered after two creates and the delete
\* of the first id holds the second id.
C1_Witness ==
  /\ IsList("expenses")
  /\ issued.expenses = <<1, 2>>
  /\ removed.expenses = {1}
  /\ Len(res.body) = 1 /\ res.body[1].id = 2

\* C2 (as stated): an update with a valid record on an id that exists, the
\* database answering, returns 200; the stored record then holds exactly
\* the submitted fields (an omitted supplier becomes null); no other record
\* of any collection changes.
C2_UpdateReplacesRecord ==
  \A t \in Resources :
    (req.method = "PUT" /\ req.path = t /\ query # "failed" /\ ValidBody(t, req.body)
       /\ Target(t) # {}) =>
      /\ res.status = 200
      /\ \E r \in db[t] : Names(req.id, r) /\ Reflects(t, r, req.body)
      /\ \A r \in before[t] : ~Names(req.id, r) => r \in db[t]
      /\ \A r \in db[t] : ~Names(req.id, r) => r \in before[t]
      /\ \A u \in Resources \ {t} : db[u] = before[u]

\* C3: a delete of an existing id, the database answering, returns 200 and
\* the row is gone; no table and no list() ever holds a deleted id again;
\* a further delete of a deleted id returns 404 and changes nothing.
C3_DeleteRemoves ==
  \A t \in Resources :
    /\ (req.method = "DELETE" /\ req.path = t /\ query # "failed" /\ Target(t) # {}) =>
         /\ res.status = 200
         /\ \A r \in db[t] : ~Names(req.id, r)
    /\ \A r \in db[t] : r.id \notin removed[t]
    /\ IsList(t) => \A k \in DOMAIN res.body : res.body[k].id \notin removed[t]
    /\ (req.method = "DELETE" /\ req.path = t /\ query # "failed" /\ Target(t) = {}
          /\ \E i \in removed[t] : Names(req.id, [id |-> i])) =>
         /\ res.status = 404
         /\ db = before

\* C3 witness: the second delete of expense 1 is answered 404.
C3_Witness ==
  /\ req.method = "DELETE" /\ req.path = "expenses" /\ req.id = Str(<<"1">>)
  /\ 1 \in removed.expenses
  /\ res.status = 404

\* C4 (as stated): an update with a valid record, or a delete, whose path id
\* names no record of the collection (never assigned, deleted, or no number)
\* is answered 404 and leaves the three collections unchanged.
C4_UnknownIdNotFound ==
  \A t \in Resources :
    (req.method \in {"PUT", "DELETE"} /\ req.path = t /\ query # "failed"
       /\ Target(t) = {}
       /\ (req.method = "PUT" => ValidBody(t, req.body))) =>
      /\ res.status = 404
      /\ db = before

\* C5: a create or update whose body leaves out a required field is
\* answered 400 without a call of pool.query, and no table changes: no row
\* is inserted and the stored record keeps its field values.
C5_OmittedFieldRejected ==
  \A t \in Resources :
    (req.method \in Writes /\ req.path = t
       /\ \E f \in RequiredFields(t) : req.body[f] = Undefined) =>
      /\ res.status = 400
      /\ db = before
      /\ query = "none"

\* C5 witness: an update of an existing inventory item without quantity is
\* answered 400.
C5_Witness ==
  /\ req.method = "PUT" /\ req.path = "inventory"
  /\ req.body.quantity = Undefined
  /\ Target("inventory") # {}
  /\ res.status = 400

\* C6 (as stated): a create or update with a numeric field that does not
\* parse to a number is answered 400 (the database answering), and no
\* numeric column ever holds NaN.
C6_NonNumericRejected ==
  /\ \A t \in Resources :
       (req.method \in Writes /\ req.path = t /\ query # "failed"
          /\ \E f \in NumericFields(t) : ~ParsesToNumber(req.body[f])) =>
         res.status = 400
  /\ \A t \in Resources : \A r \in db[t] : \A f \in NumericFields(t) : r[f] # NaN

\* C7 (as stated): a create or update of an expense or earning with amount 0
\* and the other fields valid succeeds, the database answering (201 on
\* create; 200 on update of an existing id), and stores amount 0.
C7_ZeroAmountAccepted ==
  \A t \in {"expenses", "earnings"} :
    (req.method \in Writes /\ req.path = t /\ query # "failed"
       /\ ValidBody(t, req.body) /\ req.body.amount = Num(0)
       /\ (req.method = "PUT" => Target(t) # {})) =>
      /\ res.status = (IF req.method = "POST" THEN 201 ELSE 200)
      /\ \E r \in db[t] : r \notin before[t] /\ r.amount = Num(0)

\* C8 (as stated): the summary's totalExpenses is the sum of amount over
\* the expenses, totalEarnings the sum over the earnings, and netProfit the
\* returned totalEarnings minus the returned totalExpenses.
C8_SummaryTotals ==
  IsSummary =>
    /\ res.body.totalExpenses = Sigma(Amounts(db.expenses))
    /\ res.body.totalEarnings = Sigma(Amounts(db.earnings))
    /\ res.body.netProfit
         = Minus(res.body.totalEarnings, res.body.totalExpenses)

\* C9 (as stated): the summary's totalInventoryValue is the sum over the
\* inventory items of quantity times cost_price.
C9_InventoryValue ==
  IsSummary =>
    res.body.totalInventoryValue
      = Sigma({[id |-> r.id, v |-> NumericMul(r.quantity, r.cost_price)] :
                 r \in db.inventory})

\* The monthly series M is the series of table: one entry for each month
\* that has a record and for no other, its total the decimal text of the
\* sum of amount over the month's records, in strictly ascending month order.
IsMonthlySeries(M, table) ==
  /\ {M[k].month.s : k \in DOMAIN M} = {SubSeq(r.date, 1, 7) : r \in table}
  /\ \A k \in DOMAIN M :
       /\ Len(M[k].month.s) = 7
       /\ parseFloat(M[k].total)
            = Sigma({[id |-> r.id, v |-> r.amount] :
                       r \in {x \in table : SubSeq(x.date, 1, 7) = M[k].month.s}})
  /\ \A j, k \in DOMAIN M : j < k => TextLess(M[j].month.s, M[k].month.s)

\* C10: monthlyExpenses and monthlyEarnings hold one entry per distinct
\* YYYY-MM of a record's date and no other, each total the sum of amount
\* over that month's records, in strictly ascending month order.
C10_MonthlySeries ==
  IsSummary =>
    /\ IsMonthlySeries(res.body.monthlyExpenses, db.expenses)
    /\ IsMonthlySeries(res.body.monthlyEarnings, db.earnings)

\* C10 witness: expenses 50 on 2024-01-15, 30 on 2024-01-20 and 10 on
\* 2024-02-01 give [{2024-01, 80.00}, {2024-02, 10.00}].
C10_Witness ==
  /\ IsSummary
  /\ {<<r.amount, r.date>> : r \in db.expenses}
       = {<<Num(5000), Jan15>>, <<Num(3000), Jan20>>, <<Num(1000), Feb01>>}
  /\ res.body.monthlyExpenses
       = <<[month |-> Str(<<"2", "0", "2", "4", "-", "0", "1">>),
            total |-> Str(<<"8", "0", ".", "0", "0">>)],
           [month |-> Str(<<"2", "0", "2", "4", "-", "0", "2">>),
            total |-> Str(<<"1", "0", ".", "0", "0">>)]>>

\* C11: a summary answered while all three tables are empty (at the start,
\* or after every created record has been deleted) has totalExpenses 0,
\* totalEarnings 0, netProfit 0, totalInventoryValue 0 and both monthly
\* series empty.
C11_EmptySummary ==
  (IsSummary /\ \A t \in Resources : db[t] = {}) =>
    res.body = [totalExpenses |-> Num(0), totalEarnings |-> Num(0),
                netProfit |-> Num(0), totalInventoryValue |-> Num(0),
                monthlyExpenses |-> <<>>, monthlyEarnings |-> <<>>]

\* C11 witness: a summary answered after records were created and every one
\* of them has been deleted.
C11_Witness ==
  /\ IsSummary
  /\ \A t \in Resources : db[t] = {}
  /\ Inserted > 1
  /\ \A t \in Resources : Len(issued[t]) = Cardinality(removed[t])

\* A total as the summary shows the sum of P: a sum that is no number is
\* shown as 0 (see C8).
Shown(P) == IF Sigma(P) = NaN THEN Num(0) ELSE Sigma(P)

\* C12: a summary request leaves every table as it found it, and its answer
\* is computed from the tables as they are when it is answered: every total
\* and both monthly series are those of the current rows, whatever creates,
\* updates and deletes came before and whatever earlier summaries returned.
C12_SummaryReadsCurrentState ==
  /\ req.path = "summary" => db = before
  /\ IsSummary =>
       /\ res.body.totalExpenses = Shown(Amounts(db.expenses))
       /\ res.body.totalEarnings = Shown(Amounts(db.earnings))
       /\ res.body.totalInventoryValue = Shown(StockValues(db.inventory))
       /\ res.body.netProfit
            = Minus(Shown(Amounts(db.earnings)), Shown(Amounts(db.expenses)))
       /\ IsMonthlySeries(res.body.monthlyExpenses, db.expenses)
       /\ IsMonthlySeries(res.body.monthlyEarnings, db.earnings)

\* C12 witness: a summary answered after creates and a delete shows the
\* totals of the rows that are left: expenses 10, earnings 80.
C12_Witness ==
  /\ IsSummary
  /\ removed.expenses # {}
  /\ res.body.totalExpenses = Num(1000)
  /\ res.body.totalEarnings = Num(8000)
  /\ res.body.netProfit = Num(7000)

\* Client c has its summary.
HasSummary(c) == calls[c].op = "summary" /\ calls[c].res.status = 200

\* Every statement of client c's request found the tables as its first
\* statement found them: no write was committed between them.
Unmixed(c) ==
  \A k \in DOMAIN calls[c].log : calls[c].log[k].saw = calls[c].log[1].saw

\* The sum of the totals of the monthly series M.
SumOfTotals(M) == Sigma({[id |-> k, v |-> parseFloat(M[k].total)] : k \in DOMAIN M})

\* The snapshot s agrees with itself: each total is the sum of its monthly
\* series and netProfit is the difference of the totals.
Consistent(s) ==
  /\ s.totalExpenses = SumOfTotals(s.monthlyExpenses)
  /\ s.totalEarnings = SumOfTotals(s.monthlyEarnings)
  /\ s.netProfit = Minus(s.totalEarnings, s.totalExpenses)

\* C13 (as stated): a summary whose five statements ran with no write
\* committed between them is consistent: totalExpenses is the sum of the
\* monthlyExpenses totals, totalEarnings the sum of the monthlyEarnings
\* totals, and netProfit their difference.
C13_UnmixedSummaryConsistent ==
  \A c \in Clients : (HasSummary(c) /\ Unmixed(c)) => Consistent(calls[c].res.body)

\* A summary in whose course an update was committed combines values of
\* different states of the tables: its totalExpenses is not the sum of its
\* monthlyExpenses totals, although no stored amount is NaN.
MixedSummary ==
  \E c \in Clients :
    /\ HasSummary(c)
    /\ ~Unmixed(c)
    /\ \A k \in DOMAIN calls[c].log :
         \A r \in calls[c].log[k].saw.expenses : r.amount # NaN
    /\ calls[c].res.body.totalExpenses
         # SumOfTotals(calls[c].res.body.monthlyExpenses)

\* The summaries in whose course no stored amount was NaN.
UnmixedConsistentWithoutNaN ==
  \A c \in Clients :
    (/\ HasSummary(c)
     /\ Unmixed(c)
     /\ \A r \in calls[c].log[1].saw.expenses : r.amount # NaN) =>
      Consistent(calls[c].res.body)

\* Clients c and d have both had the answer to an update of the same
\* expense, which exists, each with a valid record; the requests were under
\* way at the same time (neither came in after the other's response) and
\* the database answered their statements.
UpdatedTogether(c, d) ==
  /\ c # d
  /\ calls[c].op = "PUT" /\ calls[d].op = "PUT"
  /\ calls[c].res # NoResponse /\ calls[d].res # NoResponse
  /\ calls[c].id = calls[d].id
  /\ \E r \in db.expenses : Names(calls[c].id, r)
  /\ ValidBody("expenses", calls[c].body) /\ ValidBody("expenses", calls[d].body)
  /\ d \notin calls[c].after /\ c \notin calls[d].after
  /\ \A e \in {c, d} : \A k \in DOMAIN calls[e].log : calls[e].log[k].up

\* The stored expense that client c's update names holds c's record.
Stored(c) ==
  \E r \in db.expenses :
    Names(calls[c].id, r) /\ Reflects("expenses", r, calls[c].body)

\* C14 (as stated): when two clients update the same existing expense at
\* the same time, both are answered 200 and the stored record holds, in
\* every field, the record of the update whose statement ran last.
C14_LastWriteWins ==
  \A c, d \in Clients :
    UpdatedTogether(c, d) =>
      /\ calls[c].res.status = 200
      /\ calls[d].res.status = 200
      /\ calls[c].log[1].nth < calls[d].log[1].nth => Stored(d)

\* The same for the updates whose amount is not 0.
LastWriteWinsWithoutZero ==
  \A c, d \in Clients :
    (/\ UpdatedTogether(c, d)
     /\ NumberOf(calls[c].body.amount) # Num(0)
     /\ NumberOf(calls[d].body.amount) # Num(0)) =>
      /\ calls[c].res.status = 200
      /\ calls[d].res.status = 200
      /\ calls[c].log[1].nth < calls[d].log[1].nth => Stored(d)

\* Two updates of expense 1 with different records, both under way before
\* either statement ran, have both been answered.
UpdatedTogetherReached ==
  /\ UpdatedTogether("c1", "c2")
  /\ calls["c1"].body # calls["c2"].body
  /\ calls["c1"].res.status = 200 /\ calls["c2"].res.status = 200
  /\ calls["c2"].log[1].nth < calls["c1"].log[1].nth
  /\ Stored("c1") /\ ~Stored("c2")

IsLogin == req.method = "POST" /\ req.path = "login" /\ res # NoResponse

\* The server has a configured username and a configured password.
Configured ==
  /\ env.BASIC_AUTH_USER.k = "string" /\ Len(env.BASIC_AUTH_USER.s) > 0
  /\ env.BASIC_AUTH_PASSWORD.k = "string" /\ Len(env.BASIC_AUTH_PASSWORD.s) > 0

\* The answer to a login with credentials configured: 200 with the
\* submitted username exactly when both submitted values are the configured
\* ones, 401 otherwise, whatever logins were answered before.
LoginAnswer ==
  (IsLogin /\ Configured) =>
    /\ res.status \in {200, 401}
    /\ res.status = 200 <=>
         /\ req.body.username = env.BASIC_AUTH_USER
         /\ req.body.password = env.BASIC_AUTH_PASSWORD
    /\ res.status = 200 => res.body.user.username = req.body.username
    /\ db = before

\* The step that answers a login leaves the tables, the id sequences and
\* the configuration as they were.
LoginStep ==
  (req'.path = "login" /\ req.path # "login") =>
    /\ db' = db
    /\ nextId' = nextId
    /\ env' = env

\* C15: with credentials configured, a login is answered 200 with
\* user.username the submitted username if and only if the submitted
\* username and password are the configured pair, and 401 otherwise; that
\* holds after any number of earlier logins, failed or not, and no login
\* changes the server's state.
C15_LoginByArgumentsOnly == [](LoginAnswer) /\ [][LoginStep]_vars

\* C15 witness: the configured pair is answered 200 right after a login
\* that failed.
C15_Witness ==
  /\ IsLogin
  /\ Configured
  /\ res.status = 200
  /\ logins.tries = 2
  /\ logins.passed = 1

\* C16: with no configured username or no configured password (unset or
\* empty), every login is answered 500, never 200 and never 401, whatever
\* credentials are submitted.
C16_UnconfiguredIs500 ==
  (IsLogin /\ ~Configured) =>
    res = [status |-> 500,
           body |-> [message |-> "Authentication not configured on server."]]

\* C16 witness: neither credential is configured and a login that submits
\* neither field, so that each submitted value equals the configured one,
\* is answered 500.
C16_Witness ==
  /\ IsLogin
  /\ env.BASIC_AUTH_USER = Undefined /\ env.BASIC_AUTH_PASSWORD = Undefined
  /\ req.body.username = Undefined /\ req.body.password = Undefined
  /\ res.status = 500

\* The request in hand is one to a resource or to the summary, answered
\* with the database in reach.
IsResourceRequest ==
  /\ req.path \in Resources \cup {"summary"}
  /\ res # NoResponse
  /\ query # "failed"

\* The status a request gets from its route, told from the request and the
\* tables alone: 400 for a write with a required field left out, 201 for a
\* create, 404 for an id that names no row, 200 otherwise.
StatusByRoute ==
  IF req.method = "GET" THEN 200
  ELSE IF /\ req.method \in Writes
          /\ \E f \in RequiredFields(req.path) : req.body[f] = Undefined
  THEN 400
  ELSE IF req.method = "POST" THEN 201
  ELSE IF Target(req.path) = {} THEN 404
  ELSE 200

\* C17: a list, create, update, delete or summary request is answered by
\* its route alone, never refused for want of authentication, whether no
\* login was ever made, the last login failed or it succeeded, and whatever
\* Authorization header the request carries.
C17_NoGateOnResources ==
  IsResourceRequest =>
    /\ res.status = StatusByRoute
    /\ \A t \in Resources :
         IsList(t) => {res.body[k].id : k \in DOMAIN res.body} = {r.id : r \in db[t]}

\* C17 witness: in production with credentials configured, the expenses
\* are listed to a client whose only logins failed.
C17_Witness ==
  /\ IsList("expenses")
  /\ env = Deployed
  /\ logins.tries > 0 /\ logins.passed = 0 /\ logins.last = 401
  /\ Len(res.body) > 0

\* The text each route sends with each failure status.
FixedText(method, path, status) ==
  CASE path = "expenses" ->
         (CASE method = "GET" -> "Failed to fetch expenses"
            [] method = "POST" /\ status = 400 -> "Missing required fields for expense"
            [] method = "POST" /\ status = 500 -> "Failed to add expense"
            [] method = "PUT" /\ status = 400 -> "Missing required fields for expense update"
            [] method = "PUT" /\ status = 500 -> "Failed to update expense"
            [] method = "DELETE" /\ status = 500 -> "Failed to delete expense"
            [] OTHER -> "Expense not found")
    [] path = "earnings" ->
         (CASE method = "GET" -> "Failed to fetch earnings"
            [] method = "POST" /\ status = 400 -> "Missing required fields for earning"
            [] method = "POST" /\ status = 500 -> "Failed to add earning"
            [] method = "PUT" /\ status = 400 -> "Missing required fields for earning update"
            [] method = "PUT" /\ status = 500 -> "Failed to update earning"
            [] method = "DELETE" /\ status = 500 -> "Failed to delete earning"
            [] OTHER -> "Earning not found")
    [] path = "inventory" ->
         (CASE method = "GET" -> "Failed to fetch inventory items"
            [] method = "POST" /\ status = 400 -> "Missing required fields for inventory item"
            [] method = "POST" /\ status = 500 -> "Failed to add inventory item"
            [] method = "PUT" /\ status = 400
                 -> "Missing required fields for inventory item update"
            [] method = "PUT" /\ status = 500 -> "Failed to update inventory item"
            [] method = "DELETE" /\ status = 500 -> "Failed to delete inventory item"
            [] OTHER -> "Inventory item not found")
    [] path = "summary" -> "Failed to fetch summary data"
    [] path = "login" ->
         IF status = 401 THEN "Invalid username or password"
         ELSE "Authentication not configured on server."

\* The confirmation each delete route sends.
Confirmation(path) ==
  CASE path = "expenses" -> "Expense deleted successfully"
    [] path = "earnings" -> "Earning deleted successfully"
    [] path = "inventory" -> "Inventory item deleted successfully"

\* Row r of table t as the database returns it.
Returned(t, r) ==
  CASE t = "expenses" -> ExpenseRow(r)
    [] t = "earnings" -> EarningRow(r)
    [] t = "inventory" -> InventoryRow(r)

\* The body of a 2xx response is what its route hands over: the rows of the
\* table for a list, the stored row for a create or update, the
\* confirmation for a delete, the snapshot for the summary, the login's
\* confirmation with the username.
SuccessBody ==
  CASE req.path = "summary" ->
         DOMAIN res.body = {"totalExpenses", "totalEarnings", "netProfit",
                            "totalInventoryValue", "monthlyExpenses", "monthlyEarnings"}
    [] req.path = "login" ->
         res.body = [message |-> "Login successful",
                     user |-> [username |-> req.body.username]]
    [] req.method = "GET" /\ req.path \in Resources ->
         /\ Len(res.body) = Cardinality(db[req.path])
         /\ {res.body[k] : k \in DOMAIN res.body}
              = {Returned(req.path, r) : r \in db[req.path]}
    [] req.method \in Writes /\ req.path \in Resources ->
         \E r \in db[req.path] : res.body = Returned(req.path, r)
    [] req.method = "DELETE" /\ req.path \in Resources ->
         res.body = [message |-> Confirmation(req.path)]

\* C18: a response whose status is not 2xx has the body {message: text},
\* the text fixed by the route and the status whatever made the statement
\* fail; a 2xx response has as its body what the route hands over,
\* unwrapped; and a request whose statement the database did not take is
\* answered 500.
C18_ResponseShapes ==
  res # NoResponse =>
    /\ res.status \in {200, 201, 400, 401, 404, 500}
    /\ res.status \notin {200, 201} =>
         res.body = [message |-> FixedText(req.method, req.path, res.status)]
    /\ res.status \in {200, 201} => SuccessBody
    /\ query = "failed" => res.status = 500

\* C18 witness: an update of an expense that the database refuses for its
\* data is answered 500 with the route's text, the one it also sends when
\* the database is out of reach.
C18_Witness ==
  /\ req.method = "PUT" /\ req.path = "expenses"
  /\ res = [status |-> 500, body |-> [message |-> "Failed to update expense"]]
  /\ query = "served"

\* The ids of the rows of a table.
Ids(table) == {r.id : r \in table}

\* C19: an id, once assigned, stays: an update answered 200 returns and
\* stores the record under the id its path names, whatever id field the
\* body carries, and leaves the table's ids as they were; and an id leaves
\* a table only by a delete that returned it.
C19_IdImmutable ==
  \A t \in Resources :
    /\ (req.method = "PUT" /\ req.path = t /\ res.status = 200) =>
         /\ parseInt(req.id) = Num(100 * res.body.id)
         /\ \A r \in before[t] : Names(req.id, r) => res.body.id = r.id
         /\ \E r \in db[t] : Returned(t, r) = res.body
         /\ Ids(db[t]) = Ids(before[t])
    /\ (req.method # "DELETE" \/ req.path # t) => Ids(before[t]) \subseteq Ids(db[t])
    /\ Ids(before[t]) \ Ids(db[t]) \subseteq removed[t]
    /\ \A i \in 1..Len(issued[t]) :
         issued[t][i] \notin removed[t] => issued[t][i] \in Ids(db[t])

\* C19 witness: expenses 1 and 2 exist and an update of expense 1 whose
\* body carries id 2 is answered 200 with id 1; both ids are still there.
C19_Witness ==
  /\ req.method = "PUT" /\ req.path = "expenses" /\ req.id = Str(<<"1">>)
  /\ req.body = WithId(ExpenseFee, Num(200))
  /\ res.status = 200
  /\ res.body.id = 1
  /\ Ids(db.expenses) = {1, 2}
  /\ Ids(before.expenses) = {1, 2}

\* C20: a create, update or delete on one resource type, answered with
\* success or with a failure, leaves the rows of the other two types as
\* they were, also when a row of the same id exists there.
C20_CollectionsIndependent ==
  \A t \in Resources :
    (req.path = t /\ res # NoResponse) =>
      \A u \in Resources \ {t} : db[u] = before[u]

\* C20 witness: expense 1 and earning 1 both exist; the delete of expense 1
\* is answered 200 and earning 1 is still there.
C20_Witness ==
  /\ req.method = "DELETE" /\ req.path = "expenses" /\ req.id = Str(<<"1">>)
  /\ res.status = 200
  /\ 1 \notin Ids(db.expenses)
  /\ 1 \in Ids(before.earnings)
  /\ 1 \in Ids(db.earnings)

\* C21: a list holds every row of its table exactly once, all of them in
\* one response, in the type's order: expenses and earnings by date, latest
\* first, inventory by name ascending.
C21_ListFullAndOrdered ==
  \A t \in Resources :
    IsList(t) =>
      /\ Len(res.body) = Cardinality(db[t])
      /\ {res.body[k] : k \in DOMAIN res.body} = {Returned(t, r) : r \in db[t]}
      /\ \A j, k \in DOMAIN res.body :
           j < k =>
             IF t = "inventory"
             THEN ~TextLess(res.body[k].name.s, res.body[j].name.s)
             ELSE ~TextLess(res.body[j].date.s, res.body[k].date.s)

\* C21 witness: two expenses of different dates, left after a delete, are
\* listed latest first.
C21_Witness ==
  /\ IsList("expenses")
  /\ Len(res.body) = 2
  /\ removed.expenses # {}
  /\ res.body[1].date = Str(Feb01)
  /\ res.body[2].date = Str(Jan15)

\* The routes the application defines: the collection and the item routes of
\* the three resources, the summary, the login, and GET /.
DefinedRoute(method, path, id) ==
  \/ path \in Resources /\ id = NoId /\ method \in {"GET", "POST"}
  \/ path \in Resources /\ id # NoId /\ method \in {"PUT", "DELETE"}
  \/ path = "summary" /\ id = NoId /\ method = "GET"
  \/ path = "login" /\ id = NoId /\ method = "POST"
  \/ path = "" /\ id = NoId /\ method = "GET"

\* The one response of the request in hand is an error of the given status
\* and text, and no table has changed.
OnlyAnswer(status, text) ==
  /\ flow.pc = "done"
  /\ flow.sent = <<[status |-> status, body |-> [message |-> text]]>>
  /\ res = flow.sent[1]
  /\ db = before

Hundreds(table) ==
  {r \in table : r.quantity = Num(10000) /\ r.cost_price = Num(1050)}

\* The summary's totalInventoryValue is what it is for the other items plus
\* 1050.00 for each item of quantity 100 and cost_price 10.50.
ContributesExactly ==
  LET rest == OrZero(parseFloat(TotalInventoryValue(
                db.inventory \ Hundreds(db.inventory))))
  IN /\ res.body.totalInventoryValue.k = "number"
     /\ rest.k = "number"
     /\ res.body.totalInventoryValue.n
          = rest.n + 105000 * Cardinality(Hundreds(db.inventory))

\* C23 (as stated): an item of quantity 100 and cost_price 10.50 adds
\* exactly 1050.00 to totalInventoryValue, in every summary of every state
\* of the tables, so that a summary taken again on the same tables has the
\* same value.
C23_ExactInventoryValue == IsSummary => ContributesExactly

\* The summaries of tables in which no cost_price is NaN.
ExactInventoryValueWithoutNaN ==
  (IsSummary /\ \A r \in db.inventory : r.cost_price # NaN) =>
    ContributesExactly

\* A summary of tables with an item of quantity 100 and cost_price 10.50 and
\* no cost_price that is NaN.
ExactInventoryValueReached ==
  /\ IsSummary
  /\ Hundreds(db.inventory) # {}
  /\ \A r \in db.inventory : r.cost_price # NaN
  /\ res.body.totalInventoryValue.n >= 105000

\* The statuses of the outcomes of a handler: success, ValidationError
\* (400), NotFoundError (404), AuthError (401, and 500 from the login) and
\* StorageError (500 from the others).
Outcomes(method, path, id) ==
  CASE path = "login" -> {200, 401, 500}
    [] path = "summary" -> {200, 500}
    [] method = "GET" -> {200, 500}
    [] method = "POST" -> {201, 400, 500}
    [] method = "PUT" -> {200, 400, 404, 500}
    [] method = "DELETE" -> {200, 404, 500}

\* The request in hand is one for a resource, summary or login handler.
Handled ==
  /\ req.method # "NONE"
  /\ req.body # Malformed
  /\ req.path # ""
  /\ DefinedRoute(req.method, req.path, req.id)

\* The request in hand, if for a resource, summary or login handler, has
\* no response while its handler runs, and when the handler has ended it
\* has exactly one, of a status of one of that handler's outcomes: 400 and
\* 401 only with no statement run, and 404 and a success only with the
\* statement taken by the database.
OneResponse ==
  Handled =>
    /\ flow.pc \in {"enter", "await", "done"}
    /\ flow.pc # "done" => flow.sent = <<>>
    /\ flow.pc = "done" =>
         /\ Len(flow.sent) = 1
         /\ res = flow.sent[1]
         /\ res.status \in Outcomes(req.method, req.path, req.id)
         /\ res.status \in {400, 401} => query = "none" /\ db = before
         /\ res.status = 404 => query = "served" /\ db = before
         /\ res.status \in {200, 201} /\ req.path # "login" => query = "served"
         /\ query = "failed" => res.status = 500 /\ db = before

\* C24: every request for a resource, summary or login handler gets
\* exactly one response on every path through its handler, never none and
\* never two, of exactly one of the outcomes success, ValidationError,
\* NotFoundError, AuthError and StorageError: a handler that has been
\* entered ends, and it ends with one response.
C24_ExactlyOneResponse ==
  /\ []OneResponse
  /\ (flow.pc \in {"enter", "await"}) ~> (flow.pc = "done" /\ Len(flow.sent) = 1)

\* C24 witness: the update of an expense that is not stored has ended with
\* the one response 404.
C24_Witness ==
  /\ Handled
  /\ req.method = "PUT" /\ req.path = "expenses"
  /\ flow.pc = "done"
  /\ Len(flow.sent) = 1
  /\ flow.sent[1].status = 404

\* In the open application the user in memory is set exactly when the
\* entry of localStorage exists, and the entry is the text of that user.
UserMatchesEntry ==
  ui.view # "none" =>
    /\ ui.user # Null <=> storage # Null
    /\ ui.user # Null => storage = JSONstringify(ui.user)

\* A step of the client: a login that succeeds sets the user and the entry
\* to the user returned; no other step changes either of them but the
\* logout, which clears both.
SessionStep ==
  /\ \A k \in DOMAIN net.flight :
       (/\ LoginDone(k)
        /\ net.flight[k].loaded
        /\ net.flight[k].reply.status = 200) =>
         /\ ui.user' = net.flight[k].reply.body.user
         /\ storage' = JSONstringify(net.flight[k].reply.body.user)
  /\ (ui.view # "none" /\ (ui.user' # ui.user \/ storage' # storage)) =>
       \/ Logout /\ ui.user' = Null /\ storage' = Null
       \/ \E k \in DOMAIN net.flight :
            LoginDone(k) /\ net.flight[k].reply.status = 200

\* C25: the logged-in state lasts until logout: a successful login sets
\* the user in memory and the entry 'dashboardUser' to the returned user,
\* both stay as they are through failed logins and failed requests, only
\* the logout clears them, and it clears both; the user in memory is set
\* exactly when the entry exists.
C25_LoggedInUntilLogout == []UserMatchesEntry /\ [][SessionStep]_vars

\* C25 witness: the login has succeeded and a later login has failed with
\* 401; its answer has come in, and the user and the entry are set.
C25_Witness ==
  /\ ui.view # "none"
  /\ ui.user = [username |-> Str(<<"a">>)]
  /\ storage = JSONstringify(ui.user)
  /\ logins.passed = 1 /\ logins.tries = 2 /\ logins.last = 401
  /\ net.flight = <<>>

(***************************************************************************)
(* C26: every list fetch and every summary fetch that completes, with      *)
(* success or with an error, leaves the loading indicator of its page off, *)
(* and every login attempt that completes clears the loading flag of the   *)
(* login form; a loading indicator is on only while a request of the page  *)
(* that shows it is still under way.                                       *)
(***************************************************************************)
Pending(op) ==
  \E k \in DOMAIN net.flight : net.flight[k].op = op /\ net.flight[k].live

LoadingOnlyWhilePending ==
  /\ ui.crud.isLoading => Pending("list")
  /\ ui.dash.loading => Pending("summary")
  /\ ui.loading => Pending("login")

CompletionClears ==
  \A k \in DOMAIN net.flight :
    net.flight[k].live =>
      /\ ListDone(k) => ~ui'.crud.isLoading
      /\ SummaryDone(k) => ~ui'.dash.loading
      /\ LoginDone(k) => ~ui'.loading

C26_LoadingCleared == []LoadingOnlyWhilePending /\ [][CompletionClears]_vars

\* A summary fetch has failed, after a failed and a successful login, and
\* nothing is loading.
C26_Witness ==
  /\ ui.view = "dashboard"
  /\ ui.dash.summary = NoDash.summary
  /\ ~ui.dash.loading
  /\ net.flight = <<>>
  /\ logins.tries = 2
  /\ logins.passed = 1

(***************************************************************************)
(* C27: for every summary the dashboard holds, the chart's labels are the  *)
(* month keys of monthlyExpenses and monthlyEarnings together, each once   *)
(* and in ascending order; the Expenses and the Earnings value of a label  *)
(* is that month's total in the series, or 0 when the series has no entry  *)
(* for the month; and both datasets are as long as the list of labels.     *)
(***************************************************************************)
ValueOf(series, month, value) ==
  IF \E j \in DOMAIN series : series[j].month = month
  THEN \E j \in DOMAIN series : series[j].month = month /\ value = series[j].total
  ELSE value = Num(0)

Charted(summary, chart) ==
  /\ \A i, j \in DOMAIN chart.labels :
       i < j => TextLess(chart.labels[i].s, chart.labels[j].s)
  /\ {chart.labels[i] : i \in DOMAIN chart.labels} =
       {summary.monthlyExpenses[j].month : j \in DOMAIN summary.monthlyExpenses}
         \cup {summary.monthlyEarnings[j].month : j \in DOMAIN summary.monthlyEarnings}
  /\ Len(chart.Expenses) = Len(chart.labels)
  /\ Len(chart.Earnings) = Len(chart.labels)
  /\ \A i \in DOMAIN chart.labels :
       /\ ValueOf(summary.monthlyExpenses, chart.labels[i], chart.Expenses[i])
       /\ ValueOf(summary.monthlyEarnings, chart.labels[i], chart.Earnings[i])

C27_ChartOfSummary ==
  (ui.view = "dashboard" /\ ui.dash.summary # Null) =>
    Charted(ui.dash.summary, ui.dash.chartData)

\* Two months, one with expenses only and one with earnings only.
C27_Witness ==
  /\ ui.view = "dashboard"
  /\ ui.dash.summary # Null
  /\ Len(ui.dash.chartData.labels) = 2
  /\ Len(ui.dash.summary.monthlyExpenses) = 1
  /\ Len(ui.dash.summary.monthlyEarnings) = 1
  /\ ui.dash.chartData.Expenses[1] = Num(0)
  /\ ui.dash.chartData.Earnings[2] = Num(0)
  /\ ui.dash.chartData.Expenses[2] # Num(0)

(***************************************************************************)
(* C28: on the CrudPage, whenever no request of the client is under way,   *)
(* the list shows no record whose delete the client has seen succeed.      *)
(***************************************************************************)
DeletedShown ==
  {i \in DOMAIN ui.crud.items : ui.crud.items[i].id \in net.deleted}

C28_DeletedNotListed ==
  (ui.view = "expenses" /\ net.flight = <<>>) => DeletedShown = {}

(***************************************************************************)
(* C29: on the CrudPage, a submit of the form opened for a new item sends  *)
(* a create and a submit of the form opened for an existing item sends an  *)
(* update to that item's id.  When the request succeeds the form is        *)
(* closed, currentItem is cleared and the list is fetched again; when it   *)
(* fails the form, its data and currentItem stay as they are and no fetch  *)
(* goes out.  A delete that fails, or that the user declines to confirm,   *)
(* leaves the list as it is.                                               *)
(***************************************************************************)
Newest(flight) == flight[Len(flight)]

\* This step sends a request of the given kind.
Sends(op) ==
  /\ Len(net'.flight) = Len(net.flight) + 1
  /\ Newest(net'.flight).op = op
  /\ Newest(net'.flight).stage = "sent"

\* The number of list fetches under way.
Fetches(flight) ==
  Cardinality({k \in DOMAIN flight : flight[k].op = "list" /\ flight[k].stage = "sent"})

OpenedFor ==
  /\ OpenModal(Null) => ui'.crud.isModalOpen /\ ui'.crud.currentItem = Null
  /\ \A item \in Displayed :
       OpenModal(item) =>
         /\ ui'.crud.isModalOpen
         /\ ui'.crud.currentItem # Null
         /\ ui'.crud.currentItem.id = item.id
  /\ (ui.crud.isModalOpen /\ ui'.crud.isModalOpen) =>
       ui'.crud.currentItem = ui.crud.currentItem

SubmitSends ==
  /\ (Submit /\ Validated(ui.crud.formData, 1).ok) =>
       IF ui.crud.currentItem = Null THEN Sends("create") ELSE Sends("update")
  /\ Sends("create") =>
       /\ ui.crud.isModalOpen
       /\ ui.crud.currentItem = Null
       /\ Newest(net'.flight).id = NoId
  /\ Sends("update") =>
       /\ ui.crud.isModalOpen
       /\ ui.crud.currentItem # Null
       /\ Newest(net'.flight).id = PathOf(ui.crud.currentItem.id)

SubmitEnds ==
  \A k \in DOMAIN net.flight :
    (SubmitDone(k) /\ net.flight[k].live) =>
      IF Resolved(net.flight[k])
      THEN /\ ~ui'.crud.isModalOpen
           /\ ui'.crud.currentItem = Null
           /\ Fetches(net'.flight) = Fetches(net.flight) + 1
           /\ Newest(net'.flight).op = "list"
      ELSE /\ ui'.crud = ui.crud
           /\ Fetches(net'.flight) = Fetches(net.flight)

DeleteFails ==
  /\ \A k \in DOMAIN net.flight :
       (DeleteDone(k) /\ ~Resolved(net.flight[k])) => ui'.crud.items = ui.crud.items
  /\ \A id \in {item.id : item \in Displayed} :
       Delete(id, FALSE) => ui' = ui /\ net' = net

C29_SubmitAndDelete ==
  /\ [][OpenedFor]_vars
  /\ [][SubmitSends]_vars
  /\ [][SubmitEnds]_vars
  /\ [][DeleteFails]_vars

\* An update of record 1 has been answered 200 and not yet been received;
\* the form it was sent from is still open.
C29_Witness ==
  /\ ui.view = "expenses"
  /\ ui.crud.isModalOpen
  /\ ui.crud.currentItem # Null
  /\ ui.crud.currentItem.id = 1
  /\ \E k \in DOMAIN net.flight :
       /\ net.flight[k].op = "update"
       /\ net.flight[k].id = Str(<<"1">>)
       /\ net.flight[k].stage = "served"
       /\ net.flight[k].reply.status = 200

(***************************************************************************)
(* C30: the CrudPage sends no create or update whose body has a required   *)
(* field that is empty, undefined or null or a numeric field that is no    *)
(* number, and the server answers none of the bodies it sends with 400,    *)
(* a required numeric field equal to 0 included.                           *)
(***************************************************************************)
Saves ==
  {k \in DOMAIN net.flight : net.flight[k].op \in {"create", "update"}}

Complete(body) ==
  \A i \in DOMAIN FormFields :
    LET v == body[FormFields[i].name]
    IN /\ v \notin {Undefined, Null}
       /\ ~Blank(v)
       /\ FormFields[i].type = "number" => IsNum(v)

SentBodiesComplete == \A k \in Saves : Complete(net.flight[k].body)

Rejected(k) ==
  net.flight[k].stage = "served" /\ net.flight[k].reply.status = 400

C30_SentBodiesAccepted ==
  /\ SentBodiesComplete
  /\ \A k \in Saves : ~Rejected(k)

\* The bodies that the server turns down are those with amount 0.
RejectedOnlyForZero ==
  \A k \in Saves : Rejected(k) => net.flight[k].body.amount = Num(0)

\* A body with an amount other than 0 has been sent and accepted.
SentBodiesReached ==
  \E k \in Saves :
    /\ net.flight[k].stage = "served"
    /\ net.flight[k].reply.status \in {200, 201}
    /\ net.flight[k].body.amount # Num(0)

====
